---- MODULE Spec2Model ----
(***************************************************************************)
(* The session manager of the discovery engine                             *)
(* (src/engine/sessions/manager.go) with the Session it manages            *)
(* (src/unnamed/part_000, src/engine/types/sessions.go).                   *)
(*                                                                         *)
(* Goroutines calling the manager are the processes Procs. Every manager   *)
(* method is cut into steps at its accesses to shared state: the registry  *)
(* (under its lock), the done channel, the statistics, the resources of a  *)
(* session. A statement that touches only locals, or only state no other   *)
(* goroutine can reach while the lock is held, is part of the step of the  *)
(* shared access next to it.                                               *)
(*                                                                         *)
(* The sequential functions of the repository (Session.selectDBMS and the  *)
(* helpers of src/utils and src/cmd) are operators, each applied by a      *)
(* specification of its own to inputs drawn from bounded sets.             *)
(***************************************************************************)
EXTENDS Integers, FiniteSets, Sequences, TLC

\* ---------------------------------------------------------------- bounds
\* Calls of manager methods made in one behaviour, each by a goroutine of
\* its own; any number of them may run concurrently.
MaxCalls == 3
\* Cap on the work items dispatched, over all sessions.
MaxWork == 1

\* Session objects (values of type *Session).
Objs == {<<"session", i>> : i \in 1..MaxCalls}
Procs == 1..MaxCalls

\* The nil pointer / nil interface, and a non-nil error.
Nil == <<"nil", 0>>
Err == <<"error", 0>>
\* The step just taken returned no value.
NoRet == <<"none", 0, Nil>>
\* The step just taken ended goroutine p with a panic: the stack unwinds,
\* deferred calls run, and the goroutine is gone.
Panic(p) == <<"panic", p, Nil>>
\* No goroutine holds the lock.
Free == {}

\* Session.ID(): the uuid of a session object; ids are never reused.
IdOf(o) == <<"uuid", o[2]>>
\* An id no session carries.
UnknownId == <<"uuid", 0>>
Ids == {IdOf(o) : o \in Objs} \cup {UnknownId}

\* What CancelSession releases for a session.
Resources == {"cache", "tmpdir", "db", "eventset"}

VARIABLES
    sessions,     \* manager.sessions: map from id to *Session
    lock,         \* the goroutines holding the manager's RWMutex for writing
    constructed,  \* the session objects constructed so far
    published,    \* session objects whose NewSession call has returned
    done,         \* per session: the done channel is closed
    closes,       \* per session: number of close(s.done) executed
    terminated,   \* per session: Delete() has been invoked
    total,        \* per session: Stats().WorkItemsTotal
    completed,    \* per session: Stats().WorkItemsCompleted
    released,     \* per session: resources CancelSession has released
    pc,           \* per goroutine: its position
    arg,          \* per goroutine: the id argument / loop variable id
    ref,          \* per goroutine: the local s
    ret,          \* the value the step just taken returned: <<method, goroutine, value>>
    observed,     \* per goroutine: a poll of this CancelSession saw equality
    cancelled,    \* ids for which a CancelSession ran to its return
    visited,      \* ids the running Shutdown's range loop has produced
    sdInit,       \* ids registered when the running Shutdown took the lock
    sdDeleted     \* per session: Delete() calls of the running Shutdown

\* The state of the session manager and its sessions.
managerVars == <<sessions, lock, constructed, published, done, closes, terminated,
                 total, completed, released, pc, arg, ref, ret, observed,
                 cancelled, visited, sdInit, sdDeleted>>

VARIABLES
    cfgIn,        \* CreateSession: cfg.GraphDBs as the caller passed it
    graphDBs,     \* s.cfg.GraphDBs
    dsn,          \* s.dsn
    dbtype,       \* s.dbtype
    created       \* what CreateSession returned

\* The state of one CreateSession call.
dbmsVars == <<cfgIn, graphDBs, dsn, dbtype, created>>

VARIABLES
    graph,        \* the asset database: per entity, its dns_record edges in order
    names,        \* NamesToAddrs: the names argument
    ntaPc,        \* NamesToAddrs: its position
    fqdns,        \* NamesToAddrs: the entities found for the names
    fi,           \* NamesToAddrs: index of the fqdn the outer loop is at
    ei,           \* NamesToAddrs: index of the edge the inner loop is at
    results,      \* NamesToAddrs: the pairs appended so far
    ntaErr,       \* NamesToAddrs: the error it returned
    cqI,          \* cnameQuery: i
    cqNext,       \* cnameQuery: next
    cqSet,        \* cnameQuery: set
    examined      \* the entities whose edges the running cnameQuery has read

\* The state of one NamesToAddrs call.
addrVars == <<graph, names, ntaPc, fqdns, fi, ei, results, ntaErr,
              cqI, cqNext, cqSet, examined>>

VARIABLES
    asDb,         \* ReadASPrefixes: the asset database
    asn,          \* ReadASPrefixes: the asn argument
    asFindErr,    \* ReadASPrefixes: db.FindByContent returns an error
    asPc,         \* ReadASPrefixes: its position
    prefixes      \* ReadASPrefixes: the list it returned

\* The state of one ReadASPrefixes call.
asVars == <<asDb, asn, asFindErr, asPc, prefixes>>

VARIABLES
    scName,       \* domainNameInScope: the name argument
    scScope,      \* domainNameInScope: the scope argument
    scPc,         \* domainNameInScope: its position
    discovered    \* domainNameInScope: the value it returned

\* The state of one domainNameInScope call.
scopeVars == <<scName, scScope, scPc, discovered>>

VARIABLES
    ligPc,        \* per invocation of letitgo.check: its position
    ligAsset,     \* per invocation: the FQDN of its event
    ligResp,      \* per invocation: how its external request ended
    ligLogged,    \* per invocation: it logged "Query failed"
    monitored,    \* the assets marked monitored by source LetItGo
    requests      \* per asset: the external requests made for it

\* The state of the LetItGo plugin and of the session cache it marks.
ligVars == <<ligPc, ligAsset, ligResp, ligLogged, monitored, requests>>

VARIABLES
    roots,        \* Scope: the root domains, in the order they were added
    nodes,        \* Cache: the content keys of the underlying nodes
    sourced,      \* Cache: the nodes carrying a source property of LetItGo
    marks,        \* Cache: the monitored marks, <<asset, source, time>>
    clock,        \* the current time
    dispatched,   \* the assets submitted as follow-up events
    chkPc,        \* per invocation of the TTL-gated check: its position,
                  \* "skipped" or "done" once it returned nil before or
                  \* after the TTL test, "error" once it returned an error
    chkAsset,     \* per invocation: the asset of its event
    chkSince,     \* per invocation: the TTL start time it computed
    chkPending,   \* per invocation: the names store has still to store
    chkNames,     \* per invocation: the entities it passes to process
    chkAdded,     \* per invocation: what its last AddDomain returned
    returned,     \* history: <<content key, node>> of every CreateAsset
    markCalls     \* history: <<asset, source, time>> of every mark call

\* The state of the TTL-gated LetItGo callback, the scope and the cache.
chkVars == <<roots, nodes, sourced, marks, clock, dispatched, chkPc, chkAsset,
             chkSince, chkPending, chkNames, chkAdded, returned, markCalls>>

VARIABLES
    handlers,     \* Registry: the registered handlers, in registration order
    startPc,      \* per call of a plugin's Start: "new", "reg" while it
                  \* registers, "nil" or "error" once it returned
    startPlugin,  \* per call of Start: the plugin started
    startTried,   \* per call of Start: the RegisterHandler calls it made
    dispPc,       \* per dispatched event: "new", "run" while callbacks
                  \* are initiated, "done"
    dispType,     \* per dispatched event: its event type
    dispPending,  \* per dispatched event: the handlers still to initiate
    dispInvoked,  \* per dispatched event: the handlers initiated, in order
    running       \* the callbacks in flight, <<event, handler>>

\* The state of the handler registry and the dispatcher.
regVars == <<handlers, startPc, startPlugin, startTried, dispPc, dispType,
             dispPending, dispInvoked, running>>

VARIABLES
    killed,       \* Session: the done channel is closed
    runPc,        \* letitgo.Run: "idle", "loop" at the head of the retry
                  \* loop, "done" or "error" once it returned
    runDomain,    \* letitgo.Run: the kind of name in domain
    runFound,     \* letitgo.Run: bareDomains is not empty
    runIters      \* letitgo.Run: the iterations of the retry loop started

\* The state of a session's done signal and of one letitgo.Run call.
cancelVars == <<killed, runPc, runDomain, runFound, runIters>>

VARIABLES
    sePc,         \* storeEntity: "idle", "new" before the call, "done" after
    seLevel,      \* storeEntity: the level it is called with
    seEntity,     \* storeEntity: the RDAP entity it is called with
    seFindings,   \* storeEntity: the findings it returned
    seVisited     \* storeEntity: the calls made, <<path of the entity, level>>

\* The state of one storeEntity call of the RDAP plugin.
rdapVars == <<sePc, seLevel, seEntity, seFindings, seVisited>>

VARIABLES
    aaPc,         \* addAddresses: "idle", "new", "resolve", "infra", "done"
    asninfo,      \* addAddresses: ASN information is requested
    cache,        \* addAddresses: the prefixes of the ASN cache, or Nil
    lookup,       \* addAddresses: per name, the addresses of its Output
    output        \* addAddresses: the entries returned, per name its addresses

\* The state of one addAddresses call.
outVars == <<aaPc, asninfo, cache, lookup, output>>

\* The groups of the last sections.
lastVars == <<rdapVars, outVars>>

\* The groups after the TTL-gated callback.
moreVars == <<regVars, cancelVars, lastVars>>

\* The groups of the later sections.
laterVars == <<chkVars, moreVars>>

\* Everything but the session manager.
otherVars == <<dbmsVars, addrVars, asVars, scopeVars, ligVars, laterVars>>

vars == <<managerVars, otherVars>>

\* A nil []*config.Database.
NilList == [isNil |-> TRUE, list |-> <<>>]

\* No CreateSession call is modelled.
DbmsIdle ==
    /\ cfgIn = NilList
    /\ graphDBs = NilList
    /\ dsn = ""
    /\ dbtype = ""
    /\ created = "none"

\* No NamesToAddrs call is modelled.
AddrIdle ==
    /\ graph = <<>>
    /\ names = <<>>
    /\ ntaPc = "idle"
    /\ fqdns = <<>>
    /\ fi = 0
    /\ ei = 0
    /\ results = <<>>
    /\ ntaErr = "none"
    /\ cqI = 0
    /\ cqNext = Nil
    /\ cqSet = {}
    /\ examined = <<>>

\* No ReadASPrefixes call is modelled.
AsIdle ==
    /\ asDb = <<>>
    /\ asn = 0
    /\ asFindErr = FALSE
    /\ asPc = "idle"
    /\ prefixes = <<>>

\* No domainNameInScope call is modelled.
ScopeIdle ==
    /\ scName = <<>>
    /\ scScope = <<>>
    /\ scPc = "idle"
    /\ discovered = FALSE

\* No LetItGo handler is modelled.
LigIdle ==
    /\ ligPc = <<>>
    /\ ligAsset = <<>>
    /\ ligResp = <<>>
    /\ ligLogged = <<>>
    /\ monitored = {}
    /\ requests = <<>>

\* No TTL-gated callback is modelled.
ChkIdle ==
    /\ roots = <<>>
    /\ nodes = <<>>
    /\ sourced = {}
    /\ marks = {}
    /\ clock = 0
    /\ dispatched = {}
    /\ chkPc = <<>>
    /\ chkAsset = <<>>
    /\ chkSince = <<>>
    /\ chkPending = <<>>
    /\ chkNames = <<>>
    /\ chkAdded = <<>>
    /\ returned = {}
    /\ markCalls = {}

\* No plugin is started and no event dispatched.
RegIdle ==
    /\ handlers = <<>>
    /\ startPc = <<>>
    /\ startPlugin = <<>>
    /\ startTried = <<>>
    /\ dispPc = <<>>
    /\ dispType = <<>>
    /\ dispPending = <<>>
    /\ dispInvoked = <<>>
    /\ running = {}

\* No session is killed and Run is not called.
CancelIdle ==
    /\ killed = FALSE
    /\ runPc = "idle"
    /\ runDomain = <<>>
    /\ runFound = FALSE
    /\ runIters = 0

\* No storeEntity call is modelled.
RdapIdle ==
    /\ sePc = "idle"
    /\ seLevel = 0
    /\ seEntity = <<>>
    /\ seFindings = <<>>
    /\ seVisited = {}

\* No addAddresses call is modelled.
OutIdle ==
    /\ aaPc = "idle"
    /\ asninfo = FALSE
    /\ cache = [isNil |-> TRUE, prefixes |-> {}]
    /\ lookup = << >>
    /\ output = << >>

\* None of the last sections is modelled.
LastIdle == RdapIdle /\ OutIdle

\* None of the sections after the TTL-gated callback is modelled.
MoreIdle == RegIdle /\ CancelIdle /\ LastIdle

\* None of the later sections is modelled.
LaterIdle == ChkIdle /\ MoreIdle

\* Only the session manager is modelled.
OthersIdle == DbmsIdle /\ AddrIdle /\ AsIdle /\ ScopeIdle /\ LigIdle /\ LaterIdle

mgrVars == <<sessions, lock>>
sessVars == <<constructed, published, done, closes, terminated, released>>
statVars == <<total, completed>>
procVars == <<pc, arg, ref, observed>>
histVars == <<cancelled, visited, sdInit, sdDeleted>>

\* ------------------------------------------------------------ map helpers
EmptyMap == [k \in {} |-> Nil]

\* r.sessions[id] = o
Store(m, id, o) == [k \in (DOMAIN m) \cup {id} |-> IF k = id THEN o ELSE m[k]]

\* delete(r.sessions, id)
Remove(m, id) == [k \in (DOMAIN m) \ {id} |-> m[k]]

LookupAlwaysNil(m, id) == Nil

LookupAnyOnMiss(m, id) ==
    IF id \in DOMAIN m THEN m[id]
    ELSE IF DOMAIN m = {} THEN Nil ELSE m[CHOOSE k \in DOMAIN m : TRUE]

\* if s, found := r.sessions[id]; found { return s }; return nil
Lookup(m, id) == IF id \in DOMAIN m THEN m[id] ELSE Nil

\* ids a caller can pass: those of sessions NewSession has returned to it,
\* or an id that names no session (uuids cannot be guessed).
CallerIds == {IdOf(o) : o \in published} \cup {UnknownId}

InitManager ==
    /\ sessions = EmptyMap
    /\ lock = Free
    /\ constructed = {}
    /\ published = {}
    /\ done = [o \in Objs |-> FALSE]
    /\ closes = [o \in Objs |-> 0]
    /\ terminated = [o \in Objs |-> FALSE]
    /\ total = [o \in Objs |-> 0]
    /\ completed = [o \in Objs |-> 0]
    /\ released = [o \in Objs |-> {}]
    /\ pc = [p \in Procs |-> "new"]
    /\ arg = [p \in Procs |-> UnknownId]
    /\ ref = [p \in Procs |-> Nil]
    /\ ret = NoRet
    /\ observed = [p \in Procs |-> FALSE]
    /\ cancelled = {}
    /\ visited = {}
    /\ sdInit = {}
    /\ sdDeleted = [o \in Objs |-> 0]

\* Goroutine p can start its call: goroutines are interchangeable, so they
\* start in the order of their numbers.
Startable(p) == pc[p] = "new" /\ \A q \in Procs : q < p => pc[q] # "new"

\* p's call is over (it returned or panicked): its locals are gone.
Forget(p) ==
    /\ arg' = [arg EXCEPT ![p] = UnknownId]
    /\ ref' = [ref EXCEPT ![p] = Nil]
    /\ observed' = [observed EXCEPT ![p] = FALSE]

\* ------------------------------------------------------------- GetSession
\* manager.GetSession: a lookup under the read lock.
GetSession(p, id) ==
    /\ Startable(p)
    /\ lock = Free
    /\ ret' = <<"GetSession", p, Lookup(sessions, id)>>
    /\ pc' = [pc EXCEPT ![p] = "done"]
    /\ UNCHANGED <<mgrVars, sessVars, statVars, arg, ref, observed, histVars>>

\* ------------------------------------------------------------- NewSession
CreateErrIgnored(cfgOk) == FALSE

\* NewSession(cfg, r.redis) returned err != nil.
CreateErr(cfgOk) == ~cfgOk

\* The session object the next successful construction yields (uuid.New()
\* gives it an id no other session has).
NextObj == <<"session", Cardinality(constructed) + 1>>

\* The error AddSession returns: always nil.
AddSessionErr == FALSE

AddSessionStoreNilToo(m, s) == Store(m, IdOf(s), s)

\* manager.AddSession: nothing is stored for a nil session, else the session
\* is stored under its own id with the write lock held.
AddSessionStore(m, s) == IF s = Nil THEN m ELSE Store(m, IdOf(s), s)

\* manager.NewSession up to the return of r.AddSession(s): construct the
\* session and, on an error, return (nil, err); else have AddSession store
\* it. The construction touches nothing shared.
NsCreate(p, cfgOk) ==
    /\ Startable(p)
    /\ NextObj \in Objs
    /\ IF CreateErr(cfgOk)
         THEN /\ ret' = <<"NewSession", p, Err>>
              /\ pc' = [pc EXCEPT ![p] = "done"]
              /\ UNCHANGED <<sessions, constructed, ref>>
         ELSE /\ lock = Free
              /\ constructed' = IF cfgOk THEN constructed \cup {NextObj} ELSE constructed
              /\ sessions' = AddSessionStore(sessions, IF cfgOk THEN NextObj ELSE Nil)
              /\ IF AddSessionErr
                   THEN /\ ret' = <<"NewSession", p, Err>>
                        /\ pc' = [pc EXCEPT ![p] = "done"]
                        /\ UNCHANGED ref
                   ELSE /\ ret' = NoRet
                        /\ ref' = [ref EXCEPT ![p] = IF cfgOk THEN NextObj ELSE Nil]
                        /\ pc' = [pc EXCEPT ![p] = "ns_store"]
    /\ UNCHANGED <<lock, published, done, closes, terminated, released,
                   statVars, arg, observed, histVars>>

\* manager.NewSession, the rest: r.sessions[s.ID()] = s under the write lock
\* (s.ID() of a nil session panics), then return s.
NsStore(p) ==
    /\ pc[p] = "ns_store"
    /\ lock = Free
    /\ IF ref[p] = Nil
         THEN /\ ret' = Panic(p)
              /\ UNCHANGED <<sessions, published>>
         ELSE /\ sessions' = Store(sessions, IdOf(ref[p]), ref[p])
              /\ published' = published \cup {ref[p]}
              /\ ret' = <<"NewSession", p, ref[p]>>
    /\ pc' = [pc EXCEPT ![p] = "done"]
    /\ ref' = [ref EXCEPT ![p] = Nil]
    /\ UNCHANGED <<lock, constructed, done, closes, terminated, released,
                   statVars, arg, observed, histVars>>

\* manager.AddSession called by the holder of a live session: the session is
\* stored under its own id and the id is returned.
AddSession(p, o) ==
    /\ Startable(p)
    /\ o # Nil => (lock = Free /\ o \in published /\ ~done[o])
    /\ sessions' = AddSessionStore(sessions, o)
    /\ ret' = <<"AddSession", p, IdOf(o)>>
    /\ pc' = [pc EXCEPT ![p] = "done"]
    /\ UNCHANGED <<lock, sessVars, statVars, arg, ref, observed, histVars>>

\* ------------------------------------------------------------------- Kill
KillSelectedNever(o) == FALSE

\* Session.Kill: `select { case <-s.done: return; default: }`.
KillSelected(o) == done[o]

\* Session.Done(): the done channel is closed.
Done(o) == done[o]

\* close(s.done) panics when the channel is closed already.
ClosePanics(o) == done[o]

\* close(s.done) on an open channel.
CloseDone(o) ==
    /\ done' = [done EXCEPT ![o] = TRUE]
    /\ closes' = [closes EXCEPT ![o] = @ + 1]

\* close(s.done) on a closed channel: nothing changes but the goroutine ends.
CloseAgain(o) ==
    /\ closes' = [closes EXCEPT ![o] = @ + 1]
    /\ UNCHANGED done

\* Session.Delete(): the session enters Terminated.
Delete(o) == terminated' = [terminated EXCEPT ![o] = TRUE]

\* ---------------------------------------------------------- CancelSession
CancelStartKeepingLock(p, id) ==
    /\ Startable(p)
    /\ lock = Free
    /\ IF Lookup(sessions, id) = Nil
         THEN /\ pc' = [pc EXCEPT ![p] = "done"]
              /\ ret' = <<"CancelSession", p, Nil>>
              /\ UNCHANGED <<arg, ref, lock>>
         ELSE /\ arg' = [arg EXCEPT ![p] = id]
              /\ ref' = [ref EXCEPT ![p] = Lookup(sessions, id)]
              /\ pc' = [pc EXCEPT ![p] = "c_kill"]
              /\ ret' = NoRet
              /\ lock' = {p}
    /\ UNCHANGED <<sessions, sessVars, statVars, observed, histVars>>

\* CancelSession: `s := r.GetSession(id); if s == nil { return }`.
CancelStart(p, id) ==
    /\ Startable(p)
    /\ lock = Free
    /\ IF Lookup(sessions, id) = Nil
         THEN /\ pc' = [pc EXCEPT ![p] = "done"]
              /\ ret' = <<"CancelSession", p, Nil>>
              /\ UNCHANGED <<arg, ref>>
         ELSE /\ arg' = [arg EXCEPT ![p] = id]
              /\ ref' = [ref EXCEPT ![p] = Lookup(sessions, id)]
              /\ pc' = [pc EXCEPT ![p] = "c_kill"]
              /\ ret' = NoRet
    /\ UNCHANGED <<mgrVars, sessVars, statVars, observed, histVars>>

\* CancelSession: the select of s.Kill(...), made without any lock. When
\* the channel is closed Kill returns and s.Delete() follows at once.
CancelKillSelect(p) ==
    /\ pc[p] = "c_kill"
    /\ IF KillSelected(ref[p])
         THEN /\ Delete(ref[p])
              /\ pc' = [pc EXCEPT ![p] = "c_poll"]
         ELSE /\ pc' = [pc EXCEPT ![p] = "c_close"]
              /\ UNCHANGED terminated
    /\ ret' = NoRet
    /\ UNCHANGED <<mgrVars, constructed, published, done, closes, released,
                   statVars, arg, ref, observed, histVars>>

\* CancelSession: the close of s.Kill(...), then s.Delete(), right after
\* Kill and before the polling loop.
CancelKillClose(p) ==
    /\ pc[p] = "c_close"
    /\ IF ClosePanics(ref[p])
         THEN /\ CloseAgain(ref[p])
              /\ pc' = [pc EXCEPT ![p] = "done"]
              /\ ret' = Panic(p)
              /\ Forget(p)
              /\ UNCHANGED terminated
         ELSE /\ CloseDone(ref[p])
              /\ Delete(ref[p])
              /\ pc' = [pc EXCEPT ![p] = "c_poll"]
              /\ ret' = NoRet
              /\ UNCHANGED <<arg, ref, observed>>
    /\ UNCHANGED <<mgrVars, constructed, published, released, statVars, histVars>>

PollBreaksAlways(o) == TRUE

PollBreaksOnLessOrEqual(o) == completed[o] <= total[o]

\* The test of the polling loop, made with the statistics lock held.
PollBreaks(o) == total[o] = completed[o]

\* CancelSession: one tick of the polling loop.
CancelPoll(p) ==
    /\ pc[p] = "c_poll"
    /\ observed' = [observed EXCEPT ![p] = @ \/ (total[ref[p]] = completed[ref[p]])]
    /\ pc' = [pc EXCEPT ![p] = IF PollBreaks(ref[p]) THEN "c_lock" ELSE "c_poll"]
    /\ ret' = NoRet
    /\ UNCHANGED <<mgrVars, sessVars, statVars, arg, ref, histVars>>

\* One release of the cleanup; `viaMap` tells whether the session is read
\* from r.sessions[id] (a nil *Session when the entry is gone, whose field
\* read panics, which runs the deferred r.Unlock()) or from the local s.
\* `locks` tells whether the step begins with r.Lock().
CancelRelease(p, here, next, what, viaMap, locks) ==
    /\ pc[p] = here
    /\ IF locks THEN lock = Free ELSE lock = {p}
    /\ IF viaMap /\ arg[p] \notin DOMAIN sessions
         THEN /\ pc' = [pc EXCEPT ![p] = "done"]
              /\ ret' = Panic(p)
              /\ lock' = Free
              /\ Forget(p)
              /\ UNCHANGED released
         ELSE /\ released' = [released EXCEPT
                     ![IF viaMap THEN sessions[arg[p]] ELSE ref[p]] = @ \cup {what}]
              /\ pc' = [pc EXCEPT ![p] = next]
              /\ ret' = NoRet
              /\ lock' = {p}
              /\ UNCHANGED <<arg, ref, observed>>
    /\ UNCHANGED <<sessions, constructed, published, done, closes, terminated,
                   statVars, histVars>>

\* r.Lock(); if c := r.sessions[id].Cache(); c != nil { c.Close() }
CancelCloseCache(p) == CancelRelease(p, "c_lock", "c_tmp", "cache", TRUE, TRUE)

\* if dir := r.sessions[id].TmpDir(); dir != "" { os.RemoveAll(dir) }
CancelRemoveTmp(p) == CancelRelease(p, "c_tmp", "c_db", "tmpdir", TRUE, FALSE)

\* if db := s.DB(); db != nil { db.Close() }
CancelCloseDB(p) == CancelRelease(p, "c_db", "c_set", "db", FALSE, FALSE)

\* if set := s.EventSet(); set != nil { set.Close() }
CancelCloseSet(p) == CancelRelease(p, "c_set", "c_remove", "eventset", FALSE, FALSE)

CancelRemoveNothing(p) ==
    /\ pc[p] = "c_remove"
    /\ lock' = lock \ {p}
    /\ cancelled' = cancelled \cup {arg[p]}
    /\ pc' = [pc EXCEPT ![p] = "done"]
    /\ ret' = NoRet
    /\ Forget(p)
    /\ UNCHANGED <<sessions, sessVars, statVars, visited, sdInit, sdDeleted>>

\* CancelSession: delete(r.sessions, id), the deferred unlock, the return.
CancelRemove(p) ==
    /\ pc[p] = "c_remove"
    /\ sessions' = Remove(sessions, arg[p])
    /\ lock' = lock \ {p}
    /\ cancelled' = cancelled \cup {arg[p]}
    /\ pc' = [pc EXCEPT ![p] = "done"]
    /\ ret' = NoRet
    /\ Forget(p)
    /\ UNCHANGED <<sessVars, statVars, visited, sdInit, sdDeleted>>

\* --------------------------------------------------------------- Shutdown
\* Shutdown: r.Lock(), with the unlock deferred.
SdStart(p) ==
    /\ Startable(p)
    /\ lock = Free
    /\ lock' = {p}
    /\ visited' = {}
    /\ sdInit' = DOMAIN sessions
    /\ sdDeleted' = [o \in Objs |-> 0]
    /\ pc' = [pc EXCEPT ![p] = "sd_loop"]
    /\ ret' = NoRet
    /\ UNCHANGED <<sessions, sessVars, statVars, arg, ref, observed, cancelled>>

\* Shutdown: `for id, s := range r.sessions`, which produces the entries
\* still in the map in any order, each once.
SdLoop(p) ==
    /\ pc[p] = "sd_loop"
    /\ IF DOMAIN sessions \ visited = {}
         THEN /\ pc' = [pc EXCEPT ![p] = "sd_exit"]
              /\ UNCHANGED <<arg, ref, visited>>
         ELSE \E id \in DOMAIN sessions \ visited :
                /\ arg' = [arg EXCEPT ![p] = id]
                /\ ref' = [ref EXCEPT ![p] = sessions[id]]
                /\ visited' = visited \cup {id}
                /\ pc' = [pc EXCEPT ![p] = "sd_kill"]
    /\ ret' = NoRet
    /\ UNCHANGED <<mgrVars, sessVars, statVars, observed, cancelled, sdInit, sdDeleted>>

\* Shutdown: the select of s.Kill(...), with the registry lock held.
SdKillSelect(p) ==
    /\ pc[p] = "sd_kill"
    /\ pc' = [pc EXCEPT ![p] = IF KillSelected(ref[p]) THEN "sd_delete" ELSE "sd_close"]
    /\ ret' = NoRet
    /\ UNCHANGED <<mgrVars, sessVars, statVars, arg, ref, observed, histVars>>

\* Shutdown: the close of s.Kill(...); a panic runs the deferred r.Unlock().
SdKillClose(p) ==
    /\ pc[p] = "sd_close"
    /\ IF ClosePanics(ref[p])
         THEN /\ CloseAgain(ref[p])
              /\ pc' = [pc EXCEPT ![p] = "done"]
              /\ ret' = Panic(p)
              /\ lock' = Free
              /\ Forget(p)
              /\ visited' = {}
              /\ sdInit' = {}
              /\ sdDeleted' = [o \in Objs |-> 0]
         ELSE /\ CloseDone(ref[p])
              /\ pc' = [pc EXCEPT ![p] = "sd_delete"]
              /\ ret' = NoRet
              /\ UNCHANGED <<lock, arg, ref, observed, visited, sdInit, sdDeleted>>
    /\ UNCHANGED <<sessions, constructed, published, terminated, released,
                   statVars, cancelled>>

\* Shutdown: s.Delete().
SdDelete(p) ==
    /\ pc[p] = "sd_delete"
    /\ Delete(ref[p])
    /\ sdDeleted' = [sdDeleted EXCEPT ![ref[p]] = @ + 1]
    /\ pc' = [pc EXCEPT ![p] = "sd_remove"]
    /\ ret' = NoRet
    /\ UNCHANGED <<mgrVars, constructed, published, done, closes, released,
                   statVars, arg, ref, observed, cancelled, visited, sdInit>>

SdRemoveNothing(p) ==
    /\ pc[p] = "sd_remove"
    /\ pc' = [pc EXCEPT ![p] = "sd_loop"]
    /\ ret' = NoRet
    /\ Forget(p)
    /\ UNCHANGED <<mgrVars, sessVars, statVars, histVars>>

\* Shutdown: delete(r.sessions, id), the end of one iteration.
SdRemove(p) ==
    /\ pc[p] = "sd_remove"
    /\ sessions' = Remove(sessions, arg[p])
    /\ pc' = [pc EXCEPT ![p] = "sd_loop"]
    /\ ret' = NoRet
    /\ Forget(p)
    /\ UNCHANGED <<lock, sessVars, statVars, histVars>>

\* Shutdown: the deferred r.Unlock() and the return.
SdExit(p) ==
    /\ pc[p] = "sd_exit"
    /\ lock' = lock \ {p}
    /\ visited' = {}
    /\ sdInit' = {}
    /\ sdDeleted' = [o \in Objs |-> 0]
    /\ pc' = [pc EXCEPT ![p] = "done"]
    /\ ret' = NoRet
    /\ UNCHANGED <<sessions, sessVars, statVars, arg, ref, observed, cancelled>>

\* --------------------------------------------------------------- handlers
RECURSIVE Dispatched(_)
\* The work items dispatched so far to the sessions in S.
Dispatched(S) ==
    IF S = {} THEN 0
    ELSE LET o == CHOOSE x \in S : TRUE
         IN total[o] + Dispatched(S \ {o})

\* The dispatcher accepts an event for a session: WorkItemsTotal grows. A
\* killed session starts no new top-level work; a handler still in flight
\* may submit what it found.
DispatchEvent(o) ==
    /\ o \in published
    /\ ~Done(o) \/ completed[o] < total[o]
    /\ Dispatched(Objs) < MaxWork
    /\ total' = [total EXCEPT ![o] = @ + 1]
    /\ ret' = NoRet
    /\ UNCHANGED <<mgrVars, sessVars, completed, procVars, histVars>>

\* A handler invocation finishes: WorkItemsCompleted grows.
CompleteWork(o) ==
    /\ completed[o] < total[o]
    /\ completed' = [completed EXCEPT ![o] = @ + 1]
    /\ ret' = NoRet
    /\ UNCHANGED <<mgrVars, sessVars, total, procVars, histVars>>

Next ==
    \/ \E p \in Procs : \E id \in CallerIds : GetSession(p, id) /\ UNCHANGED otherVars
    \/ \E p \in Procs : \E cfgOk \in BOOLEAN : NsCreate(p, cfgOk) /\ UNCHANGED otherVars
    \/ \E p \in Procs : NsStore(p) /\ UNCHANGED otherVars
    \/ \E p \in Procs : \E o \in Objs \cup {Nil} : AddSession(p, o) /\ UNCHANGED otherVars
    \/ \E p \in Procs : \E id \in CallerIds : CancelStart(p, id) /\ UNCHANGED otherVars
    \/ \E p \in Procs : CancelKillSelect(p) /\ UNCHANGED otherVars
    \/ \E p \in Procs : CancelKillClose(p) /\ UNCHANGED otherVars
    \/ \E p \in Procs : CancelPoll(p) /\ UNCHANGED otherVars
    \/ \E p \in Procs : CancelCloseCache(p) /\ UNCHANGED otherVars
    \/ \E p \in Procs : CancelRemoveTmp(p) /\ UNCHANGED otherVars
    \/ \E p \in Procs : CancelCloseDB(p) /\ UNCHANGED otherVars
    \/ \E p \in Procs : CancelCloseSet(p) /\ UNCHANGED otherVars
    \/ \E p \in Procs : CancelRemove(p) /\ UNCHANGED otherVars
    \/ \E p \in Procs : SdStart(p) /\ UNCHANGED otherVars
    \/ \E p \in Procs : SdLoop(p) /\ UNCHANGED otherVars
    \/ \E p \in Procs : SdKillSelect(p) /\ UNCHANGED otherVars
    \/ \E p \in Procs : SdKillClose(p) /\ UNCHANGED otherVars
    \/ \E p \in Procs : SdDelete(p) /\ UNCHANGED otherVars
    \/ \E p \in Procs : SdRemove(p) /\ UNCHANGED otherVars
    \/ \E p \in Procs : SdExit(p) /\ UNCHANGED otherVars
    \/ \E o \in Objs : DispatchEvent(o) /\ UNCHANGED otherVars
    \/ \E o \in Objs : CompleteWork(o) /\ UNCHANGED otherVars

\* The session manager alone: nothing else is called.
Init == InitManager /\ OthersIdle

Spec == Init /\ [][Next]_vars

\* ------------------------------------------------------------------ claims
\* The session object carrying id.
ObjOf(id) == <<"session", id[2]>>

\* Positions inside CancelSession, after its lookup found the session.
CancelPcs == {"c_kill", "c_close", "c_poll", "c_lock",
              "c_tmp", "c_db", "c_set", "c_remove"}

\* p takes a step of the call it is in.
Moves(p) == pc'[p] # pc[p]

\* p's call returns in this step.
Returns(p) == pc[p] # "done" /\ pc'[p] = "done" /\ ret' # Panic(p)

C2_NoReturnBeforeObservedQuiescence ==
    [][\A p \in Procs :
          (pc[p] \in CancelPcs /\ Moves(p) /\ (Returns(p) \/ sessions' # sessions))
             => observed[p]]_vars

\* C2 witness: a CancelSession has returned after work of its session drained.
C2_Witness ==
    \E id \in cancelled : total[ObjOf(id)] > 0

\* C3: in CancelSession the session's Delete is invoked only after Kill and
\* only once the statistics show WorkItemsCompleted = WorkItemsTotal.
C3_DeleteOnlyAfterKillAndQuiescence ==
    [][\A p \in Procs :
          (pc[p] \in {"c_kill", "c_close"} /\ pc'[p] = "c_poll")
             => (done'[ref[p]] /\ total[ref[p]] = completed[ref[p]])]_vars

C5_KillIdempotentSequentially ==
    [][/\ \A o \in Objs :
            /\ Done(o) => done'[o]
            /\ done'[o] => closes'[o] >= 1
            /\ (closes[o] = 0 /\ closes'[o] = 1) => done'[o]
       /\ \A p \in Procs :
            (pc[p] \in {"c_kill", "sd_kill"} /\ Moves(p) /\ Done(ref[p]))
               => /\ pc'[p] \in {"c_poll", "sd_delete"}
                  /\ ret' # Panic(p)
                  /\ UNCHANGED <<mgrVars, done, closes, released, statVars>>]_vars

\* C5 witness: two CancelSession calls are past Kill on the same session,
\* whose done channel was closed once: one of the Kills was a no-op.
C5_Witness ==
    \E p, q \in Procs :
        /\ p # q
        /\ pc[p] \in {"c_poll", "c_lock"}
        /\ pc[q] \in {"c_poll", "c_lock"}
        /\ ref[p] = ref[q]
        /\ closes[ref[p]] = 1

\* C6: under every interleaving of concurrent Kill calls the done channel of
\* a session is closed at most once.
C6_DoneClosedAtMostOnce ==
    \A o \in Objs : closes[o] <= 1

C8_ShutdownDestroysOnlyQuiescent ==
    [][\A p \in Procs :
          (pc[p] \in {"sd_delete", "sd_remove"} /\ Moves(p))
             => total[ref[p]] = completed[ref[p]]]_vars

\* C9: GetSession(id) returns nil for an id that is not registered and the
\* session stored under id otherwise, and never changes the registry.
C9_GetSessionFindsOrNil ==
    [][\A p \in Procs : \A id \in Ids :
          GetSession(p, id) =>
             /\ sessions' = sessions
             /\ id \notin DOMAIN sessions => ret'[3] = Nil
             /\ id \in DOMAIN sessions =>
                   (ret'[3] = sessions[id] /\ IdOf(ret'[3]) = id)]_vars

\* C9 witness: a lookup of a registered id has returned its session.
C9_Witness ==
    ret[1] = "GetSession" /\ ret[3] \in Objs /\ Lookup(sessions, IdOf(ret[3])) = ret[3]

\* C10: manager.NewSession either fails, returning an error and leaving the
\* registry unchanged, or returns a session then found under its own id; no
\* session whose construction failed is ever in the registry.
C10_NewSessionAllOrNothing ==
    [][/\ \A p \in Procs :
            NsCreate(p, FALSE)
               => (ret' = <<"NewSession", p, Err>> /\ sessions' = sessions /\ pc'[p] = "done")
       /\ \A p \in Procs :
            (pc[p] = "ns_store" /\ Returns(p))
               => /\ ret' = <<"NewSession", p, ref[p]>>
                  /\ ref[p] \in Objs
                  /\ Lookup(sessions', IdOf(ref[p])) = ref[p]
       /\ \A p \in Procs : pc'[p] = "ns_store" => ref'[p] \in constructed'
       /\ \A id \in DOMAIN sessions' :
            sessions'[id] \in constructed' /\ IdOf(sessions'[id]) = id]_vars

\* C10 witness: a NewSession call has just failed while a session created
\* by an earlier call is registered.
C10_Witness ==
    /\ ret[1] = "NewSession" /\ ret[3] = Err
    /\ \E o \in published : Lookup(sessions, IdOf(o)) = o

\* ------------------------------------------------------------ text values
\* A Go string is the sequence of its characters.
Upper == <<"A", "B", "C", "D", "E", "F", "G", "H", "I", "J", "K", "L", "M",
           "N", "O", "P", "Q", "R", "S", "T", "U", "V", "W", "X", "Y", "Z">>
Lower == <<"a", "b", "c", "d", "e", "f", "g", "h", "i", "j", "k", "l", "m",
           "n", "o", "p", "q", "r", "s", "t", "u", "v", "w", "x", "y", "z">>

ToLowerChar(c) ==
    IF \E i \in DOMAIN Upper : Upper[i] = c
      THEN Lower[CHOOSE i \in DOMAIN Upper : Upper[i] = c]
      ELSE c

ToLowerIdentity(s) == s

\* strings.ToLower
ToLower(s) == [i \in DOMAIN s |-> ToLowerChar(s[i])]

\* ------------------------------------------------------- CreateSession
\* Longest cfg.GraphDBs list tried.
MaxDBs == 2

\* Values of config.Database.System tried.
Systems == {
    <<"p", "o", "s", "t", "g", "r", "e", "s">>,
    <<"P", "o", "s", "t", "g", "r", "e", "S">>,
    <<"s", "q", "l", "i", "t", "e">>,
    <<"S", "Q", "L", "i", "t", "e">>,
    <<"S", "q", "l", "i", "t", "e", "3">>,
    <<"m", "y", "s", "q", "l">>,
    <<>> }

\* Values of *config.Database tried.
Databases == [Primary : BOOLEAN, System : Systems]

RECURSIVE ListsUpTo(_, _)
\* The sequences over S of length at most n.
ListsUpTo(S, n) ==
    IF n = 0 THEN {<<>>}
    ELSE LET shorter == ListsUpTo(S, n - 1)
         IN shorter \cup {Append(l, x) : l \in shorter, x \in S}

\* Values of cfg.GraphDBs tried: nil, or a list (the empty one included).
ConfigLists ==
    {NilList} \cup {[isNil |-> FALSE, list |-> l] : l \in ListsUpTo(Databases, MaxDBs)}

\* selectDBMS: `if s.cfg.GraphDBs == nil { s.cfg.GraphDBs = ... }`.
DefaultDBs(g) ==
    IF g.isNil
      THEN [isNil |-> FALSE,
            list |-> << [Primary |-> TRUE, System |-> <<"s", "q", "l", "i", "t", "e">>] >>]
      ELSE g

\* selectDBMS: the entry at which the loop breaks (0: it runs to the end).
BreakAt(l) ==
    IF \E i \in DOMAIN l : l[i].Primary
      THEN CHOOSE i \in DOMAIN l : l[i].Primary /\ \A j \in 1..(i - 1) : ~l[j].Primary
      ELSE 0

\* selectDBMS up to the check of s.dsn and s.dbtype: the list as the loop
\* leaves it (db.System is lowercased in place), and s.dsn, s.dbtype.
SelectDBMS(g) ==
    LET l == DefaultDBs(g).list
        i == BreakAt(l)
        system == IF i = 0 THEN <<>> ELSE ToLower(l[i].System)
        l2 == IF i = 0 THEN l ELSE [l EXCEPT ![i].System = system]
    IN [graphDBs |-> [isNil |-> FALSE, list |-> l2],
        dsn |-> IF i = 0 THEN ""
                ELSE IF system = <<"p", "o", "s", "t", "g", "r", "e", "s">>
                  THEN "host= port= user= password= dbname="
                ELSE IF \/ system = <<"s", "q", "l", "i", "t", "e">>
                        \/ system = <<"s", "q", "l", "i", "t", "e", "3">>
                  THEN "amass.sqlite"
                ELSE "",
        dbtype |-> IF i = 0 THEN ""
                   ELSE IF system = <<"p", "o", "s", "t", "g", "r", "e", "s">>
                     THEN "postgres"
                   ELSE IF \/ system = <<"s", "q", "l", "i", "t", "e">>
                           \/ system = <<"s", "q", "l", "i", "t", "e", "3">>
                     THEN "sqlite"
                   ELSE ""]

\* CreateSession: setupDB (selectDBMS), then cache.New. storeOk and cacheOk
\* tell whether assetdb.New and cache.New return non-nil.
CreateSession(storeOk, cacheOk) ==
    /\ created = "none"
    /\ LET r == SelectDBMS(graphDBs)
       IN /\ graphDBs' = r.graphDBs
          /\ dsn' = r.dsn
          /\ dbtype' = r.dbtype
          /\ created' =
               IF r.dsn = "" \/ r.dbtype = ""
                 THEN "no primary database specified in the configuration"
               ELSE IF ~storeOk THEN "failed to initialize database store"
               ELSE IF ~cacheOk THEN "failed to create the session cache"
               ELSE "session"
    /\ UNCHANGED cfgIn

InitDBMS ==
    /\ InitManager
    /\ AddrIdle
    /\ AsIdle
    /\ ScopeIdle
    /\ LigIdle
    /\ LaterIdle
    /\ cfgIn \in ConfigLists
    /\ graphDBs = cfgIn
    /\ dsn = ""
    /\ dbtype = ""
    /\ created = "none"

NextDBMS ==
    \E storeOk \in BOOLEAN : \E cacheOk \in BOOLEAN :
        CreateSession(storeOk, cacheOk) /\ UNCHANGED <<managerVars, addrVars, asVars, scopeVars, ligVars, laterVars>>

SpecDBMS == InitDBMS /\ [][NextDBMS]_vars

\* The lowercase system names a primary database may carry.
KnownSystems == {<<"p", "o", "s", "t", "g", "r", "e", "s">>,
                 <<"s", "q", "l", "i", "t", "e">>,
                 <<"s", "q", "l", "i", "t", "e", "3">>}

\* The given list has a first Primary entry and it names a known system,
\* whatever the case of its letters.
PrimaryResolvable(l) ==
    \E i \in DOMAIN l :
        /\ l[i].Primary
        /\ \A j \in DOMAIN l : j < i => ~l[j].Primary
        /\ \E k \in KnownSystems :
              /\ Len(k) = Len(l[i].System)
              /\ \A n \in DOMAIN k :
                    \/ l[i].System[n] = k[n]
                    \/ \E u \in DOMAIN Upper : Upper[u] = l[i].System[n] /\ Lower[u] = k[n]

\* C11: CreateSession fails whenever no primary database is resolvable (a
\* non-nil GraphDBs without a Primary entry, or whose first Primary entry
\* names a system other than postgres, sqlite, sqlite3 in any letter case),
\* and a nil GraphDBs, or a list whose first Primary entry is resolvable,
\* never fails for this reason.
C11_NoPrimaryDatabaseFails ==
    created # "none" =>
        /\ (~cfgIn.isNil /\ ~PrimaryResolvable(cfgIn.list)) => created # "session"
        /\ (created = "no primary database specified in the configuration")
              <=> (~cfgIn.isNil /\ ~PrimaryResolvable(cfgIn.list))

\* C11 witness: a call failed on a list whose second Primary entry names
\* sqlite while its first names an unknown system, and so did not count.
C11_Witness ==
    /\ created = "no primary database specified in the configuration"
    /\ Len(cfgIn.list) = 2
    /\ cfgIn.list[1].Primary /\ cfgIn.list[2].Primary
    /\ cfgIn.list[2].System = <<"s", "q", "l", "i", "t", "e">>

\* ----------------------------------------------------------- NamesToAddrs
\* cnameQuery: `for i := 0; i < 10; i++`.
MaxHops == 10
\* Longest alias chain tried.
MaxChain == 12

\* Entities: names, addresses, and an id no entity carries.
Fqdn(i) == <<"fqdn", i>>
Ip(i) == <<"ip", i>>
Gone == <<"gone", 0>>
\* A name the database does not hold.
Missing == Fqdn(-1)

\* An edge: its relation type, the RRType of its header, its ToEntity.
EdgeTo(rel, rrtype, to) == [rel |-> rel, rrtype |-> rrtype, to |-> to]

\* Relation types and RRTypes tried: A, AAAA, CNAME, TXT as BasicDNSRelation,
\* NS, MX as PrefDNSRelation, SRV as SRVDNSRelation.
RelKinds == {<<"basic", 1>>, <<"basic", 28>>, <<"basic", 5>>, <<"basic", 16>>,
             <<"pref", 2>>, <<"pref", 15>>, <<"srv", 33>>}

\* Small graphs: two names with any edges among the two names, two
\* addresses and a dangling id; the first name has up to two edges, the
\* second up to one.
SmallTargets == {Fqdn(0), Fqdn(1), Ip(1), Ip(2), Gone}
SmallEdges == {EdgeTo(k[1], k[2], to) : k \in RelKinds, to \in SmallTargets}
SmallGraph(l0, l1) ==
    [n \in {Fqdn(0), Fqdn(1), Ip(1), Ip(2)} |->
        IF n = Fqdn(0) THEN l0 ELSE IF n = Fqdn(1) THEN l1 ELSE <<>>]
SmallGraphs ==
    {SmallGraph(l0, l1) :
        l0 \in {<<>>} \cup {<<e>> : e \in SmallEdges}
                      \cup {<<e, f>> : e \in SmallEdges, f \in SmallEdges},
        l1 \in {<<>>} \cup {<<e>> : e \in SmallEdges}}

\* Chains: Fqdn(0) -CNAME-> Fqdn(1) -CNAME-> ... -CNAME-> Fqdn(k), with the
\* edges `tail` at Fqdn(k).
ChainGraph(k, tail) ==
    [n \in {Fqdn(i) : i \in 0..k} \cup {Ip(1)} |->
        IF n = Ip(1) THEN <<>>
        ELSE IF n = Fqdn(k) THEN tail
        ELSE << EdgeTo("basic", 5, Fqdn(n[2] + 1)) >>]
ChainTails(k) ==
    {<<>>, << EdgeTo("basic", 1, Ip(1)) >>, << EdgeTo("basic", 1, Gone) >>}
       \cup {<< EdgeTo("basic", 5, Fqdn(j)) >> : j \in 0..k}
ChainGraphs == UNION {{ChainGraph(k, tail) : tail \in ChainTails(k)} : k \in 1..MaxChain}

Graphs == SmallGraphs \cup ChainGraphs

\* The names asked for: two names of the graph around one it does not hold.
Requested == <<Fqdn(0), Missing, Fqdn(1)>>

\* db.FindEntityById(id) returns an entity.
FindEntityById(g, id) == id \in DOMAIN g

\* db.OutgoingEdges(n, since, "dns_record").
OutgoingEdges(g, n) == IF n \in DOMAIN g THEN g[n] ELSE <<>>

\* entity.Asset.(*network.IPAddress)
IsIPAddress(n) == n[1] = "ip"

\* getAddr: the address, or an error.
getAddr(g, n) == IF FindEntityById(g, n) /\ IsIPAddress(n) THEN n ELSE Err

IsAddrEdgeV4Only(e) == e.rel = "basic" /\ e.rrtype = 1

\* A BasicDNSRelation with RRType 1 or 28.
IsAddrEdge(e) == e.rel = "basic" /\ e.rrtype \in {1, 28}

\* A BasicDNSRelation with RRType 5.
IsAliasEdge(e) == e.rel = "basic" /\ e.rrtype = 5

\* The least member of a set of indexes of a list, or 0.
FirstOf(S) == IF S = {} THEN 0 ELSE CHOOSE i \in S : \A j \in S : i <= j

\* oneMoreName: getAddr of the first address record of the name, or an error.
oneMoreName(g, n) ==
    LET edges == OutgoingEdges(g, n)
        i == FirstOf({k \in DOMAIN edges : IsAddrEdge(edges[k])})
    IN IF i = 0 THEN Err ELSE getAddr(g, edges[i].to)

LoopTestAlways(i) == TRUE

\* cnameQuery: the loop test `i < 10`.
LoopTest(i) == i < MaxHops

SetHasNever(set, key) == FALSE

\* set.Has(n.Asset.Key())
SetHas(set, key) == key \in set

\* NamesToAddrs, lines 48-53: the entities of the names the database holds.
NtaFind ==
    /\ ntaPc = "start"
    /\ fqdns' = SelectSeq(names, LAMBDA n : FindEntityById(graph, n))
    /\ fi' = 1
    /\ ei' = 1
    /\ ntaPc' = "edges"
    /\ UNCHANGED <<graph, names, results, ntaErr, cqI, cqNext, cqSet, examined>>

NtaAfterFatal(ip) ==
    IF ip # Err
      THEN /\ ntaPc' = "edges"
           /\ results' = Append(results, <<fqdns[fi], ip>>)
           /\ fi' = fi + 1
           /\ ei' = 1
      ELSE /\ ntaPc' = "done"
           /\ UNCHANGED <<results, fi, ei>>

NtaAfterStayingOnName(ip) ==
    /\ ntaPc' = "edges"
    /\ ei' = ei + 1
    /\ fi' = fi
    /\ results' = IF ip # Err THEN Append(results, <<fqdns[fi], ip>>) ELSE results

\* A helper returned ip, or an error: append the pair and `continue loop`,
\* or go on with the next edge.
NtaAfter(ip) ==
    /\ ntaPc' = "edges"
    /\ IF ip # Err
         THEN /\ results' = Append(results, <<fqdns[fi], ip>>)
              /\ fi' = fi + 1
              /\ ei' = 1
         ELSE /\ ei' = ei + 1
              /\ UNCHANGED <<results, fi>>

\* NamesToAddrs, lines 58-105: one edge of the inner loop, the step to the
\* next fqdn, or the return.
NtaEdge ==
    /\ ntaPc = "edges"
    /\ IF fi > Len(fqdns)
         THEN /\ ntaPc' = "done"
              /\ ntaErr' = "nil"
              /\ UNCHANGED <<fi, ei, results, cqI, cqNext, cqSet, examined>>
         ELSE LET edges == OutgoingEdges(graph, fqdns[fi])
              IN /\ ntaErr' = ntaErr
                 /\ IF ei > Len(edges)
                      THEN /\ fi' = fi + 1
                           /\ ei' = 1
                           /\ UNCHANGED <<ntaPc, results, cqI, cqNext, cqSet, examined>>
                      ELSE LET e == edges[ei]
                           IN IF IsAliasEdge(e)
                                THEN /\ ntaPc' = "cname"
                                     /\ cqI' = 0
                                     /\ cqNext' = e.to
                                     /\ cqSet' = {}
                                     /\ examined' = <<>>
                                     /\ UNCHANGED <<fi, ei, results>>
                                ELSE /\ NtaAfter(
                                          IF IsAddrEdge(e) THEN getAddr(graph, e.to)
                                          ELSE IF e.rel = "pref" /\ e.rrtype \in {2, 15}
                                            THEN oneMoreName(graph, e.to)
                                          ELSE IF e.rel = "srv" /\ e.rrtype = 33
                                            THEN oneMoreName(graph, e.to)
                                          ELSE Err)
                                     /\ UNCHANGED <<cqI, cqNext, cqSet, examined>>
    /\ UNCHANGED <<graph, names, fqdns>>

\* cnameQuery: the loop test and one iteration, or the return after the loop.
CqStep ==
    /\ ntaPc = "cname"
    /\ IF \/ ~LoopTest(cqI)
          \/ ~FindEntityById(graph, cqNext)
          \/ SetHas(cqSet, cqNext)
         THEN /\ NtaAfter(Err)
              /\ UNCHANGED <<cqI, cqNext, cqSet, examined>>
         ELSE LET edges == OutgoingEdges(graph, cqNext)
                  i == FirstOf({k \in DOMAIN edges : IsAddrEdge(edges[k]) \/ IsAliasEdge(edges[k])})
              IN /\ cqSet' = cqSet \cup {cqNext}
                 /\ examined' = Append(examined, cqNext)
                 /\ IF i # 0 /\ IsAddrEdge(edges[i])
                      THEN /\ NtaAfter(getAddr(graph, edges[i].to))
                           /\ UNCHANGED <<cqI, cqNext>>
                      ELSE /\ cqNext' = IF i = 0 THEN cqNext ELSE edges[i].to
                           /\ cqI' = cqI + 1
                           /\ UNCHANGED <<ntaPc, fi, ei, results>>
    /\ UNCHANGED <<graph, names, fqdns, ntaErr>>

InitAddr ==
    /\ InitManager
    /\ DbmsIdle
    /\ AsIdle
    /\ ScopeIdle
    /\ LigIdle
    /\ LaterIdle
    /\ graph \in Graphs
    /\ names = Requested
    /\ ntaPc = "start"
    /\ fqdns = <<>>
    /\ fi = 0
    /\ ei = 0
    /\ results = <<>>
    /\ ntaErr = "none"
    /\ cqI = 0
    /\ cqNext = Nil
    /\ cqSet = {}
    /\ examined = <<>>

NextAddr ==
    \/ NtaFind /\ UNCHANGED <<managerVars, dbmsVars, asVars, scopeVars, ligVars, laterVars>>
    \/ NtaEdge /\ UNCHANGED <<managerVars, dbmsVars, asVars, scopeVars, ligVars, laterVars>>
    \/ CqStep /\ UNCHANGED <<managerVars, dbmsVars, asVars, scopeVars, ligVars, laterVars>>

SpecAddr == InitAddr /\ [][NextAddr]_vars

\* The call runs on: a step that is possible is eventually taken.
SpecAddrLive == SpecAddr /\ WF_vars(NextAddr)

\* results holds a pair for name n.
HasPair(n) == \E i \in DOMAIN results : results[i][1] = n

\* C12: alias-chain resolution terminates on every graph, a graph with a
\* CNAME cycle included: the call returns, and the step of cnameQuery that
\* meets a node it has seen returns a failure, which adds no address.
C12_AliasResolutionTerminates ==
    /\ <>(ntaPc = "done")
    /\ [][(ntaPc = "cname" /\ cqNext \in cqSet)
             => (ntaPc' = "edges" /\ results' = results /\ ei' = ei + 1)]_vars

\* C12 witness: the call returned without a pair on the cycle a -> b -> a.
C12_Witness ==
    /\ ntaPc = "done"
    /\ graph = SmallGraph(<< EdgeTo("basic", 5, Fqdn(1)) >>, << EdgeTo("basic", 5, Fqdn(0)) >>)
    /\ results = <<>>

\* C13: cnameQuery examines at most 10 nodes and none twice; on the chain
\* name -CNAME-> t1 -CNAME-> ... -CNAME-> tk where only tk has an address
\* record, NamesToAddrs returns the address when k <= 10 and no pair for
\* the name when k > 10.
C13_AliasHopCap ==
    /\ Len(examined) <= 10
    /\ \A i, j \in DOMAIN examined : examined[i] = examined[j] => i = j
    /\ \A k \in 1..MaxChain :
          (ntaPc = "done" /\ graph = ChainGraph(k, << EdgeTo("basic", 1, Ip(1)) >>))
             => /\ k <= 10 => \E i \in DOMAIN results : results[i] = <<Fqdn(0), Ip(1)>>
                /\ k > 10 => ~HasPair(Fqdn(0))

\* C13 witness: on the chain of 11 aliases the name got no pair, while its
\* first alias target, 10 aliases from the address, did after 10 nodes.
C13_Witness ==
    /\ ntaPc = "done"
    /\ graph = ChainGraph(11, << EdgeTo("basic", 1, Ip(1)) >>)
    /\ results = << <<Fqdn(1), Ip(1)>> >>
    /\ Len(examined) = 10

\* The resolution rule as a function of the graph. An address record
\* resolves to its target when that is an address the database holds.
RuleAddress(g, e) ==
    IF e.rrtype \in {1, 28} /\ e.to \in DOMAIN g /\ e.to[1] = "ip" THEN e.to ELSE Err

\* The first record of name t among those of the given types, if any.
RuleFirst(g, t, types) ==
    IF t \in DOMAIN g /\ \E i \in DOMAIN g[t] : g[t][i].rrtype \in types
      THEN LET i == CHOOSE i \in DOMAIN g[t] :
                       /\ g[t][i].rrtype \in types
                       /\ \A j \in DOMAIN g[t] : j < i => g[t][j].rrtype \notin types
           IN << g[t][i] >>
      ELSE <<>>

\* One additional hop: the direct address record of the target name.
RuleOneHop(g, t) ==
    LET r == RuleFirst(g, t, {1, 28})
    IN IF r = <<>> THEN Err ELSE RuleAddress(g, r[1])

RECURSIVE RuleAlias(_, _, _)
\* An alias is followed to the next name t, where an address record
\* resolves and an alias record is followed again, for at most 10 names
\* and until a name repeats.
RuleAlias(g, t, seen) ==
    LET r == RuleFirst(g, t, {1, 28, 5})
    IN IF Cardinality(seen) >= 10 \/ t \in seen \/ r = <<>> THEN Err
       ELSE IF r[1].rrtype = 5 THEN RuleAlias(g, r[1].to, seen \cup {t})
       ELSE RuleAddress(g, r[1])

\* What one record of a name resolves to, by its type.
RuleRecord(g, e) ==
    IF e.rrtype \in {1, 28} THEN RuleAddress(g, e)
    ELSE IF e.rrtype = 5 THEN RuleAlias(g, e.to, {})
    ELSE IF e.rrtype \in {15, 2, 33} THEN RuleOneHop(g, e.to)
    ELSE Err

\* What a name resolves to: the result of its first record that resolves.
RuleName(g, n) ==
    IF n \in DOMAIN g /\ \E i \in DOMAIN g[n] : RuleRecord(g, g[n][i]) # Err
      THEN RuleRecord(g, g[n][CHOOSE i \in DOMAIN g[n] :
                                   /\ RuleRecord(g, g[n][i]) # Err
                                   /\ \A j \in DOMAIN g[n] : j < i => RuleRecord(g, g[n][j]) = Err])
      ELSE Err

RECURSIVE RulePairs(_, _)
\* The pairs of the names of l that resolve, in the order of l.
RulePairs(g, l) ==
    IF l = <<>> THEN <<>>
    ELSE IF RuleName(g, Head(l)) = Err THEN RulePairs(g, Tail(l))
    ELSE << <<Head(l), RuleName(g, Head(l))>> >> \o RulePairs(g, Tail(l))

C15_TraversalFailureNotFatal ==
    ntaPc = "done" =>
        /\ ntaErr = "nil"
        /\ \A i \in DOMAIN names :
              HasPair(names[i]) <=> RuleName(graph, names[i]) # Err

\* C15 witness: the first name failed on an alias to itself and the last
\* name still got its address.
C15_Witness ==
    /\ ntaPc = "done"
    /\ graph[Fqdn(0)] = << EdgeTo("basic", 5, Fqdn(0)) >>
    /\ results = << <<Fqdn(1), Ip(1)>> >>

\* --------------------------------------------------------- ReadASPrefixes
\* Longest edge list of an autonomous system tried.
MaxAnnounced == 3

\* Entities: autonomous systems and netblocks.
As(i) == <<"as", i>>
Netblock(i) == <<"netblock", i>>

\* netblock.CIDR.String()
Cidr(n) == IF n = Netblock(1) THEN "192.0.2.0/24" ELSE "2001:db8::/32"

\* Edges of an autonomous system tried: to a netblock, to an entity that
\* is no netblock, to an id no entity carries, with either label.
AsEdges == [label : {"announces", "registration"},
            to : {Netblock(1), Netblock(2), Ip(1), Gone}]

\* Databases tried: two autonomous systems, each with either number; the
\* first with any edges, the second with none or one.
AsDatabases ==
    [number : [{As(1), As(2)} -> {64500, 64501}],
     edges : {[n \in {As(1), As(2)} |-> IF n = As(1) THEN l1 ELSE l2] :
                 l1 \in ListsUpTo(AsEdges, MaxAnnounced),
                 l2 \in {<<>>, << [label |-> "announces", to |-> Netblock(2)] >>}}]

\* The entities a database holds.
AsEntities == {As(1), As(2), Netblock(1), Netblock(2), Ip(1)}

\* db.FindByContent(&network.AutonomousSystem{Number: asn}, since): the
\* entities found, in the order of their ids.
FindByContent(db, number) ==
    SelectSeq(<<As(1), As(2)>>, LAMBDA a : db.number[a] = number)

OutgoingAnyLabel(db, n, label) == db.edges[n]

\* db.Repo.OutgoingEdges(n, since, label): the edges of n with the label.
OutgoingLabelled(db, n, label) == SelectSeq(db.edges[n], LAMBDA e : e.label = label)

RECURSIVE AppendNetblocks(_, _)
\* The loop of ReadASPrefixes over edges, appending to prefixes.
AppendNetblocks(pre, edges) ==
    IF edges = <<>> THEN pre
    ELSE LET to == Head(edges).to
         IN IF to \notin AsEntities THEN AppendNetblocks(pre, Tail(edges))
            ELSE IF to[1] = "netblock"
              THEN AppendNetblocks(Append(pre, Cidr(to)), Tail(edges))
            ELSE AppendNetblocks(pre, Tail(edges))

\* ReadASPrefixes.
ReadASPrefixes ==
    /\ asPc = "start"
    /\ LET found == FindByContent(asDb, asn)
       IN prefixes' =
            IF asFindErr \/ Len(found) # 1 THEN <<>>
            ELSE AppendNetblocks(<<>>, OutgoingLabelled(asDb, found[1], "announces"))
    /\ asPc' = "done"
    /\ UNCHANGED <<asDb, asn, asFindErr>>

InitAS ==
    /\ InitManager
    /\ DbmsIdle
    /\ AddrIdle
    /\ ScopeIdle
    /\ LigIdle
    /\ LaterIdle
    /\ asDb \in AsDatabases
    /\ asn = 64500
    /\ asFindErr \in BOOLEAN
    /\ asPc = "start"
    /\ prefixes = <<>>

NextAS == ReadASPrefixes /\ UNCHANGED <<managerVars, dbmsVars, addrVars, scopeVars, ligVars, laterVars>>

SpecAS == InitAS /\ [][NextAS]_vars

\* The autonomous systems of the database that carry the asked number.
AsNodes == {a \in {As(1), As(2)} : asDb.number[a] = asn}

\* The positions, in the edge list of a, of `announces` edges to netblocks
\* the database holds.
Announced(a) ==
    {i \in DOMAIN asDb.edges[a] :
        /\ asDb.edges[a][i].label = "announces"
        /\ asDb.edges[a][i].to \in {Netblock(1), Netblock(2)}}

\* C16: ReadASPrefixes returns the CIDR strings of the netblocks the
\* autonomous-system node for asn announces, one per such edge and in the
\* order of the edges; it returns nothing when the lookup fails or finds no
\* node or more than one.
C16_ReadASPrefixes ==
    asPc = "done" =>
        IF asFindErr \/ Cardinality(AsNodes) # 1
          THEN prefixes = <<>>
          ELSE LET a == CHOOSE a \in AsNodes : TRUE
               IN /\ Len(prefixes) = Cardinality(Announced(a))
                  /\ \A i \in Announced(a) :
                        prefixes[Cardinality({j \in Announced(a) : j <= i})]
                           = Cidr(asDb.edges[a][i].to)

\* C16 witness: one of three edges was an announced netblock; an edge to a
\* dangling id and a netblock under another label were skipped.
C16_Witness ==
    /\ asPc = "done"
    /\ prefixes = <<"2001:db8::/32">>
    /\ asDb.number[As(2)] # asn
    /\ asDb.edges[As(1)] = << [label |-> "announces", to |-> Gone],
                              [label |-> "registration", to |-> Netblock(1)],
                              [label |-> "announces", to |-> Netblock(2)] >>

\* ------------------------------------------------------ domainNameInScope
\* Longest name tried.
MaxNameLen == 4

\* Names tried: the strings of letters in both cases, dots and spaces.
ScopeNames == ListsUpTo({"a", "A", "b", ".", " "}, MaxNameLen)

\* Root domains tried.
ScopeRoots == {<<>>, <<"a">>, <<"A">>, <<"b">>, <<"B">>, <<"a", ".", "b">>}

\* Scopes tried: no root, one root, two roots.
Scopes == {<<>>} \cup {<<r>> : r \in ScopeRoots}
                 \cup {<<r, s>> : r \in ScopeRoots, s \in ScopeRoots}

\* A character strings.TrimSpace removes.
IsSpace(c) == c = " "

RECURSIVE TrimLeft(_)
TrimLeft(s) == IF s # <<>> /\ IsSpace(Head(s)) THEN TrimLeft(Tail(s)) ELSE s

RECURSIVE TrimRight(_)
TrimRight(s) ==
    IF s # <<>> /\ IsSpace(s[Len(s)]) THEN TrimRight(SubSeq(s, 1, Len(s) - 1)) ELSE s

\* strings.TrimSpace
TrimSpace(s) == TrimRight(TrimLeft(s))

\* strings.HasSuffix
HasSuffix(s, suffix) ==
    /\ Len(suffix) <= Len(s)
    /\ SubSeq(s, Len(s) - Len(suffix) + 1, Len(s)) = suffix

DotSuffixNoDot(d) == d

\* "." + d
DotSuffix(d) == <<".">> \o d

\* domainNameInScope: the loop sets discovered at the first root that
\* matches.
NameInScope(name, scope) ==
    LET n == ToLower(TrimSpace(name))
    IN \E i \in DOMAIN scope :
          LET d == ToLower(scope[i])
          IN n = d \/ HasSuffix(n, DotSuffix(d))

domainNameInScope ==
    /\ scPc = "start"
    /\ discovered' = NameInScope(scName, scScope)
    /\ scPc' = "done"
    /\ UNCHANGED <<scName, scScope>>

InitScope ==
    /\ InitManager
    /\ DbmsIdle
    /\ AddrIdle
    /\ AsIdle
    /\ LigIdle
    /\ LaterIdle
    /\ scName \in ScopeNames
    /\ scScope \in Scopes
    /\ scPc = "start"
    /\ discovered = FALSE

NextScope == domainNameInScope /\ UNCHANGED <<managerVars, dbmsVars, addrVars, asVars, ligVars, laterVars>>

SpecScope == InitScope /\ [][NextScope]_vars

\* Two characters are the same, ignoring case.
SameFold(c, d) ==
    \/ c = d
    \/ \E u \in DOMAIN Upper : {c, d} = {Upper[u], Lower[u]}

\* Two strings are equal, ignoring case.
EqualFold(s, r) ==
    Len(s) = Len(r) /\ \A i \in DOMAIN s : SameFold(s[i], r[i])

\* d equals r or ends with "." + r, ignoring case.
SuffixMatch(d, r) ==
    \/ EqualFold(d, r)
    \/ /\ Len(d) > Len(r)
       /\ d[Len(d) - Len(r)] = "."
       /\ EqualFold(SubSeq(d, Len(d) - Len(r) + 1, Len(d)), r)

\* d without the white space around it.
Unpadded(d) ==
    IF \A i \in DOMAIN d : d[i] = " " THEN <<>>
    ELSE LET first == CHOOSE i \in DOMAIN d : d[i] # " " /\ \A j \in 1..(i - 1) : d[j] = " "
             last == CHOOSE i \in DOMAIN d : d[i] # " " /\ \A j \in (i + 1)..Len(d) : d[j] = " "
         IN SubSeq(d, first, last)

\* C17 as stated: for every name d and list of roots the membership test is
\* true iff d equals some root r or ends with "." + r, ignoring case.
C17_ScopeIsSuffixMatch ==
    scPc = "done" =>
        (discovered <=> \E i \in DOMAIN scScope : SuffixMatch(scName, scScope[i]))

\* C17 amended: the membership test is true iff d, without the white space
\* around it, equals some root r or ends with "." + r, ignoring case; an
\* empty list of roots matches nothing.
C17_ScopeIsSuffixMatchOfTrimmedName ==
    scPc = "done" =>
        /\ discovered <=> \E i \in DOMAIN scScope : SuffixMatch(Unpadded(scName), scScope[i])
        /\ scScope = <<>> => ~discovered

\* C17 witness: a name in upper case was found in scope as a subdomain of
\* the second root, after the first root, which it only ends with, failed.
C17_Witness ==
    /\ scPc = "done"
    /\ discovered
    /\ scName = <<"b", "A", ".", "b">>
    /\ scScope = << <<"a">>, <<"B">> >>

\* ---------------------------------------------------------------- LetItGo
\* Handler.MaxInstances of the LetItGo handler.
MaxInstances == 5
\* Events delivered to the handler in one behaviour, each to an invocation
\* of its own.
MaxEvents == 3

Invocations == 1..MaxEvents

\* The FQDN assets the events carry.
EventAssets == {Fqdn(0), Fqdn(1)}

\* An asset that is not an FQDN, and the assets an event can carry.
OtherAssets == {Ip(0)}
Delivered == EventAssets \cup OtherAssets

\* e.Entity.Asset.(*domain.FQDN): the assertion succeeds.
IsFQDN(a) == a[1] = "fqdn"

\* How the external request of letitgo.query ends: postSOAP or io.ReadAll
\* fails, the XML does not decode, the decoded response names no domain,
\* or it names some.
Responses == {"transport error", "decode error", "no domains", "domains"}

QueryErrNever(resp) == FALSE

\* letitgo.query returns a non-nil error.
QueryErr(resp) == resp # "domains"

\* The invocations running.
Running == {i \in Invocations : ligPc[i] \in {"query", "mark", "process"}}

\* The dispatcher hands an event for asset a to the callback: invocations
\* start in the order of their numbers, at most MaxInstances at a time.
LigStart(i, a) ==
    /\ ligPc[i] = "new"
    /\ \A j \in Invocations : j < i => ligPc[j] # "new"
    /\ Cardinality(Running) < MaxInstances
    /\ ligPc' = [ligPc EXCEPT ![i] = "query"]
    /\ ligAsset' = [ligAsset EXCEPT ![i] = a]
    /\ UNCHANGED <<ligResp, ligLogged, monitored, requests>>

\* letitgo.check, line 74-78: the single-value type assertion on the
\* event's asset panics when the asset is not an FQDN; otherwise l.query
\* posts the SOAP request and decodes the response, and on an error check
\* logs "Query failed" and returns nil.
LigQuery(i, resp) ==
    /\ ligPc[i] = "query"
    /\ IF ~IsFQDN(ligAsset[i])
         THEN /\ ligPc' = [ligPc EXCEPT ![i] = "panic"]
              /\ UNCHANGED <<ligResp, ligLogged, requests>>
         ELSE /\ requests' = [requests EXCEPT ![ligAsset[i]] = @ + 1]
              /\ ligResp' = [ligResp EXCEPT ![i] = resp]
              /\ IF QueryErr(resp)
                   THEN /\ ligLogged' = [ligLogged EXCEPT ![i] = TRUE]
                        /\ ligPc' = [ligPc EXCEPT ![i] = "done"]
                   ELSE /\ ligPc' = [ligPc EXCEPT ![i] = "mark"]
                        /\ UNCHANGED ligLogged
    /\ UNCHANGED <<ligAsset, monitored>>

\* letitgo.check, line 79-81: support.MarkAssetMonitored, then the test
\* `len(entities) > 0`; stored says the store returned an entity for at
\* least one of the names.
LigMark(i, stored) ==
    /\ ligPc[i] = "mark"
    /\ monitored' = monitored \cup {ligAsset[i]}
    /\ ligPc' = [ligPc EXCEPT ![i] = IF stored THEN "process" ELSE "done"]
    /\ UNCHANGED <<ligAsset, ligResp, ligLogged, requests>>

\* letitgo.check, line 82-84: l.process hands the entities on, return nil.
LigProcess(i) ==
    /\ ligPc[i] = "process"
    /\ ligPc' = [ligPc EXCEPT ![i] = "done"]
    /\ UNCHANGED <<ligAsset, ligResp, ligLogged, monitored, requests>>

InitLIG ==
    /\ InitManager
    /\ DbmsIdle
    /\ AddrIdle
    /\ AsIdle
    /\ ScopeIdle
    /\ LaterIdle
    /\ ligPc = [i \in Invocations |-> "new"]
    /\ ligAsset = [i \in Invocations |-> Nil]
    /\ ligResp = [i \in Invocations |-> "none"]
    /\ ligLogged = [i \in Invocations |-> FALSE]
    /\ monitored = {}
    /\ requests = [a \in EventAssets |-> 0]

NextLIG ==
    \/ \E i \in Invocations : \E a \in Delivered :
          LigStart(i, a) /\ UNCHANGED <<managerVars, dbmsVars, addrVars, asVars, scopeVars, laterVars>>
    \/ \E i \in Invocations : \E resp \in Responses :
          LigQuery(i, resp) /\ UNCHANGED <<managerVars, dbmsVars, addrVars, asVars, scopeVars, laterVars>>
    \/ \E i \in Invocations : \E stored \in BOOLEAN :
          LigMark(i, stored) /\ UNCHANGED <<managerVars, dbmsVars, addrVars, asVars, scopeVars, laterVars>>
    \/ \E i \in Invocations :
          LigProcess(i) /\ UNCHANGED <<managerVars, dbmsVars, addrVars, asVars, scopeVars, laterVars>>

SpecLIG == InitLIG /\ [][NextLIG]_vars

\* C18: every invocation of the LetItGo callback follows the two-branch TTL
\* pattern: it makes an external request only on a TTL miss, that is, no
\* step makes a request for an asset that is marked monitored.
C18_TwoBranchTTLPattern ==
    [][\A a \in EventAssets : requests'[a] # requests[a] => a \notin monitored]_vars

\* C19: at most one fresh external call is made per asset in a TTL window:
\* of the invocations for one asset, whether they run one after another or
\* concurrently, at most one has performed a query that returned domains.
C19_OneFreshCallPerWindow ==
    \A a \in EventAssets :
        Cardinality({i \in Invocations : ligAsset[i] = a /\ ligResp[i] = "domains"}) <= 1

\* C20: a query that completes and yields zero domains is a successful
\* empty result: nothing is logged as a failure and the asset is marked
\* monitored; only a transport or decode failure is reported as a failure.
C20_EmptyResultIsNotFailure ==
    [][\A i \in Invocations :
          (ligPc[i] = "query" /\ ligPc'[i] # "query")
             => /\ ligLogged'[i] <=> ligResp'[i] \in {"transport error", "decode error"}
                /\ ligResp'[i] = "no domains" => ligPc'[i] = "mark"]_vars

\* C21: the callback returns an error only when it cannot extract the FQDN
\* asset from the event: for an event whose asset is not an FQDN it returns
\* an error without querying and without crashing; for an FQDN it returns
\* no error, and a failed external query is logged and nil is returned.
C21_ErrorOnlyOnExtractionFailure ==
    [][\A i \in Invocations :
          (ligPc[i] = "query" /\ ligPc'[i] # "query")
             => IF ligAsset[i] \in OtherAssets
                  THEN ligPc'[i] = "error" /\ requests' = requests
                  ELSE /\ ligPc'[i] \notin {"error", "panic"}
                       /\ ligResp'[i] \in {"transport error", "decode error"}
                             => ligLogged'[i] /\ ligPc'[i] = "done"]_vars

\* ------------------------------------------------ the TTL-gated callback
\* The last tick of the clock, and the configured TTL in ticks.
MaxTime == 2
Ttl == 1

\* The invocations of the callback in one behaviour.
MaxChecks == 2
Checks == 1..MaxChecks

\* The seed domain of the session, and the names events carry: the seed
\* in upper case, a subdomain of it, and a foreign name.
SeedRoot == <<"a">>
ChkNames == {<<"A">>, <<"b", ".", "a">>, <<"b">>}

\* The content key of the FQDN asset with name n, and of no asset.
FqdnNamed(n) == <<"fqdn", n>>
NoAsset == <<"nil", <<>>>>

\* An asset that is not an FQDN.
NotFqdn == <<"ip", <<"1">>>>

\* The assets an event can carry.
ChkEvents == {FqdnNamed(n) : n \in ChkNames} \cup {NotFqdn}

\* The sources that mark assets: the LetItGo plugin and the RDAP plugin.
LetItGoSource == "LetItGo"
RdapSource == "RDAP"

\* The Domain elements a federation response can carry, once the
\* onmicrosoft.com names are dropped and the rest reduced to their
\* registered domain: a subdomain of the seed and a foreign name.
ResponseDomains == {<<"b", ".", "a">>, <<"B">>}

\* How the request of query ends: postSOAP fails, the XML does not parse,
\* or the response carries some of the domains.
ChkResponses ==
    {[err |-> e, domains |-> {}] : e \in {"transport error", "decode error"}}
       \cup {[err |-> "none", domains |-> D] : D \in SUBSET ResponseDomains}

\* Scope.IsAssetInScope(fqdn, 0): the matched root and the confidence, 0
\* and no asset when the name ends in none of the roots; an exact match
\* has the highest confidence.
ExactRoots(rs, name) == {j \in DOMAIN rs : ToLower(rs[j]) = ToLower(name)}
SuffixRoots(rs, name) ==
    {j \in DOMAIN rs : HasSuffix(ToLower(name), DotSuffix(ToLower(rs[j])))}
IsAssetInScope(rs, name) ==
    IF ExactRoots(rs, name) # {}
      THEN [asset |-> FqdnNamed(rs[FirstOf(ExactRoots(rs, name))]), conf |-> 100]
      ELSE IF SuffixRoots(rs, name) # {}
             THEN [asset |-> FqdnNamed(rs[FirstOf(SuffixRoots(rs, name))]), conf |-> 50]
             ELSE [asset |-> NoAsset, conf |-> 0]

AddDomainAlways(rs, name) == [roots |-> Append(rs, name), added |-> TRUE]

\* Scope.AddDomain(name): inserts the root and tells whether it was new.
AddDomain(rs, name) ==
    IF \E j \in DOMAIN rs : rs[j] = name
      THEN [roots |-> rs, added |-> FALSE]
      ELSE [roots |-> Append(rs, name), added |-> TRUE]

CreateAssetAlwaysNew(ns, key) == [nodes |-> Append(ns, key), node |-> Len(ns) + 1]

\* Cache.CreateAsset(asset): the node with the content key, created when
\* there is none.
CreateAsset(ns, key) ==
    LET have == FirstOf({j \in DOMAIN ns : ns[j] = key})
    IN IF have # 0
         THEN [nodes |-> ns, node |-> have]
         ELSE [nodes |-> Append(ns, key), node |-> Len(ns) + 1]

AssetMonitoredIgnoringSource(ms, asset, source, since) ==
    \E m \in ms : m[1] = asset /\ m[3] >= since

\* support.AssetMonitoredWithinTTL: a mark recorded by the source on the
\* asset has a timestamp at or after since.
AssetMonitoredWithinTTL(ms, asset, source, since) ==
    \E m \in ms : m[1] = asset /\ m[2] = source /\ m[3] >= since

\* support.MarkAssetMonitored: a fresh mark stamped with the current time.
MarkAssetMonitored(ms, asset, source, now) == ms \cup {<<asset, source, now>>}

\* support.TTLStartTime: the start of the TTL window that ends now.
TTLStartTime(now) == now - Ttl

\* support.SourceToAssetsWithinTTL: the stored assets the source found.
SourceToAssetsWithinTTL(found) == found

\* support.ProcessFQDNsWithSource: the entities that are in scope are
\* submitted as new events.
ProcessFQDNs(rs, ns, entities) ==
    {ns[j] : j \in {k \in entities : IsAssetInScope(rs, ns[k][2]).conf > 0}}

StringsEqualFoldAlways(a, b) == TRUE

\* strings.EqualFold
StringsEqualFold(a, b) == ToLower(a) = ToLower(b)

\* check returns nil ("skipped", "done") or an error ("error"): its local
\* variables are gone.
ChkReturn(i, r) ==
    /\ chkPc' = [chkPc EXCEPT ![i] = r]
    /\ chkAsset' = [chkAsset EXCEPT ![i] = NoAsset]
    /\ chkSince' = [chkSince EXCEPT ![i] = 0]
    /\ chkPending' = [chkPending EXCEPT ![i] = {}]
    /\ chkNames' = [chkNames EXCEPT ![i] = {}]
    /\ chkAdded' = [chkAdded EXCEPT ![i] = "none"]

\* The dispatcher hands an event for asset a to the callback.
ChkStart(i, a) ==
    /\ chkPc[i] = "new"
    /\ \A j \in Checks : j < i => chkPc[j] # "new"
    /\ chkPc' = [chkPc EXCEPT ![i] = "scope"]
    /\ chkAsset' = [chkAsset EXCEPT ![i] = a]
    /\ UNCHANGED <<roots, nodes, sourced, marks, clock, dispatched, chkSince,
                   chkPending, chkNames, chkAdded, returned, markCalls>>

\* check, lines 178-192: the type assertion fails with "failed to extract
\* the FQDN asset"; a name out of scope, or whose matched root is another
\* name, returns nil; a TTLStartTime error is returned; otherwise the TTL
\* test is next.
ChkScope(i, ttlOk) ==
    /\ chkPc[i] = "scope"
    /\ LET a == chkAsset[i]
           m == IsAssetInScope(roots, a[2])
       IN IF ~IsFQDN(a)
            THEN ChkReturn(i, "error")
            ELSE IF m.conf = 0 \/ m.asset = NoAsset
                   THEN ChkReturn(i, "skipped")
                   ELSE IF ~StringsEqualFold(a[2], m.asset[2])
                          THEN ChkReturn(i, "skipped")
                          ELSE IF ~ttlOk
                                 THEN ChkReturn(i, "error")
                                 ELSE /\ chkSince' = [chkSince EXCEPT ![i] = TTLStartTime(clock)]
                                      /\ chkPc' = [chkPc EXCEPT ![i] = "ttl"]
                                      /\ UNCHANGED <<chkAsset, chkPending, chkNames, chkAdded>>
    /\ UNCHANGED <<roots, nodes, sourced, marks, clock, dispatched, returned,
                   markCalls>>

\* check, lines 194-210, and query, lines 79-135. On a TTL hit the stored
\* assets are looked up and processed, and check returns nil. On a miss
\* the request is posted and the response parsed; the names are lowercased
\* into a set; an error or an empty set makes check log "Query failed" and
\* return nil; otherwise store has the names to store.
ChkQuery(i, resp) ==
    /\ chkPc[i] = "ttl"
    /\ IF AssetMonitoredWithinTTL(marks, chkAsset[i], LetItGoSource, chkSince[i])
         THEN /\ dispatched' = dispatched
                     \cup ProcessFQDNs(roots, nodes, SourceToAssetsWithinTTL(sourced))
              /\ ChkReturn(i, "done")
         ELSE LET subs == {ToLower(d) : d \in resp.domains}
              IN /\ UNCHANGED dispatched
                 /\ IF resp.err # "none" \/ subs = {}
                      THEN ChkReturn(i, "done")
                      ELSE /\ chkPending' = [chkPending EXCEPT ![i] = subs]
                           /\ chkPc' = [chkPc EXCEPT ![i] = "store"]
                           /\ UNCHANGED <<chkAsset, chkSince, chkNames, chkAdded>>
    /\ UNCHANGED <<roots, nodes, sourced, marks, clock, returned, markCalls>>

StoreWithoutAddDomain(rs, name) == [roots |-> rs, added |-> FALSE]

\* store, line 152: the scope is updated with the new domain.
StoreAddDomain(rs, name) == AddDomain(rs, name)

\* store, lines 144-158, one turn of the loop: CreateAsset of the FQDN;
\* when it succeeds the entity is a result, gets the source property, and
\* the name is added to the scope; when it fails the error is logged.
\* After the last name query returns and check goes on at line 203.
ChkStore(i, n, ok) ==
    /\ chkPc[i] = "store"
    /\ n \in chkPending[i]
    /\ chkPending' = [chkPending EXCEPT ![i] = @ \ {n}]
    /\ chkPc' = [chkPc EXCEPT ![i] = IF chkPending'[i] = {} THEN "mark" ELSE "store"]
    /\ IF ok
         THEN LET c == CreateAsset(nodes, FqdnNamed(n))
                  s == StoreAddDomain(roots, n)
              IN /\ nodes' = c.nodes
                 /\ returned' = returned \cup {<<FqdnNamed(n), c.node>>}
                 /\ chkNames' = [chkNames EXCEPT ![i] = @ \cup {c.node}]
                 /\ sourced' = sourced \cup {c.node}
                 /\ roots' = s.roots
                 /\ chkAdded' = [chkAdded EXCEPT ![i] = IF s.added THEN "true" ELSE "false"]
         ELSE /\ chkAdded' = [chkAdded EXCEPT ![i] = "none"]
              /\ UNCHANGED <<nodes, returned, chkNames, sourced, roots>>
    /\ UNCHANGED <<marks, clock, dispatched, chkAsset, chkSince, markCalls>>

\* check, lines 203-210: the asset is marked monitored, the entities, if
\* any, are processed, and check returns nil.
ChkMark(i) ==
    /\ chkPc[i] = "mark"
    /\ marks' = MarkAssetMonitored(marks, chkAsset[i], LetItGoSource, clock)
    /\ markCalls' = markCalls \cup {<<chkAsset[i], LetItGoSource, clock>>}
    /\ dispatched' = dispatched \cup ProcessFQDNs(roots, nodes, chkNames[i])
    /\ ChkReturn(i, "done")
    /\ UNCHANGED <<roots, nodes, sourced, clock, returned>>

\* A handler of the RDAP plugin marks the entity of the root domain's
\* event with its own source.
MarkByRdap ==
    /\ \A m \in marks : m[2] # RdapSource
    /\ marks' = MarkAssetMonitored(marks, FqdnNamed(<<"A">>), RdapSource, clock)
    /\ markCalls' = markCalls \cup {<<FqdnNamed(<<"A">>), RdapSource, clock>>}
    /\ UNCHANGED <<roots, nodes, sourced, clock, dispatched, chkPc, chkAsset,
                   chkSince, chkPending, chkNames, chkAdded, returned>>

\* Time passes.
Tick ==
    /\ clock < MaxTime
    /\ clock' = clock + 1
    /\ UNCHANGED <<roots, nodes, sourced, marks, dispatched, chkPc, chkAsset,
                   chkSince, chkPending, chkNames, chkAdded, returned, markCalls>>

\* A session with the seed in scope and the seed's node in the cache.
InitCheck ==
    /\ InitManager
    /\ DbmsIdle
    /\ AddrIdle
    /\ AsIdle
    /\ ScopeIdle
    /\ LigIdle
    /\ MoreIdle
    /\ roots = <<SeedRoot>>
    /\ nodes = <<FqdnNamed(SeedRoot)>>
    /\ sourced = {}
    /\ marks = {}
    /\ clock = 0
    /\ dispatched = {}
    /\ chkPc = [i \in Checks |-> "new"]
    /\ chkAsset = [i \in Checks |-> NoAsset]
    /\ chkSince = [i \in Checks |-> 0]
    /\ chkPending = [i \in Checks |-> {}]
    /\ chkNames = [i \in Checks |-> {}]
    /\ chkAdded = [i \in Checks |-> "none"]
    /\ returned = {}
    /\ markCalls = {}

\* The other groups stay as they are.
ChkFrame == UNCHANGED <<managerVars, dbmsVars, addrVars, asVars, scopeVars, ligVars, moreVars>>

\* Concurrent invocations of the callback within one TTL window.
NextCheck ==
    \/ \E i \in Checks : \E a \in ChkEvents : ChkStart(i, a) /\ ChkFrame
    \/ \E i \in Checks : \E ttlOk \in BOOLEAN : ChkScope(i, ttlOk) /\ ChkFrame
    \/ \E i \in Checks : \E resp \in ChkResponses : ChkQuery(i, resp) /\ ChkFrame
    \/ \E i \in Checks : \E n \in ChkNames : \E ok \in BOOLEAN :
          ChkStore(i, n, ok) /\ ChkFrame
    \/ \E i \in Checks : ChkMark(i) /\ ChkFrame

SpecCheck == InitCheck /\ [][NextCheck]_vars

\* No invocation but i is running.
Alone(i) == \A j \in Checks : j # i => chkPc[j] \in {"new", "skipped", "done", "error"}

\* Invocations one after another, while time passes and the RDAP plugin
\* marks too.
NextTTL ==
    \/ \E i \in Checks : \E a \in ChkEvents : Alone(i) /\ ChkStart(i, a) /\ ChkFrame
    \/ \E i \in Checks : \E ttlOk \in BOOLEAN : ChkScope(i, ttlOk) /\ ChkFrame
    \/ \E i \in Checks : \E resp \in ChkResponses : ChkQuery(i, resp) /\ ChkFrame
    \/ \E i \in Checks : \E n \in ChkNames : \E ok \in BOOLEAN :
          ChkStore(i, n, ok) /\ ChkFrame
    \/ \E i \in Checks : ChkMark(i) /\ ChkFrame
    \/ MarkByRdap /\ ChkFrame
    \/ Tick /\ ChkFrame

SpecTTL == InitCheck /\ [][NextTTL]_vars

\* Claim side: name d is in the scope with roots rs.
InScopeOf(rs, d) == \E j \in DOMAIN rs : SuffixMatch(d, rs[j])

\* C22: an asset node is created, and a follow-up event dispatched, only
\* for a discovered domain that is in scope: every step that adds a node
\* adds one whose name is in the scope of that moment, and every asset
\* newly dispatched is in scope.
C22_OnlyInScopeDiscoveriesStored ==
    [][/\ \A k \in DOMAIN nodes' :
             k \notin DOMAIN nodes => InScopeOf(roots, nodes'[k][2])
       /\ \A d \in dispatched' \ dispatched : InScopeOf(roots, d[2])]_vars

\* Claim side: some root of rs is the name d, ignoring case.
IsRootOf(rs, d) == \E j \in DOMAIN rs : EqualFold(d, rs[j])

\* C23: a scope mismatch is a silent skip: when the event's FQDN is not, 
\* ignoring case, one of the root domains (it is out of scope, or only a
\* subdomain of its matched root), the callback returns nil at once
\* without querying, marking or processing; so every invocation that goes
\* on to the TTL test, the query and the mark is for a root domain.
C23_ScopeMismatchIsSilentSkip ==
    [][\A i \in Checks :
          /\ (/\ chkPc[i] = "scope"
              /\ chkPc'[i] # "scope"
              /\ chkAsset[i][1] = "fqdn"
              /\ ~IsRootOf(roots, chkAsset[i][2]))
                => /\ chkPc'[i] = "skipped"
                   /\ marks' = marks
                   /\ dispatched' = dispatched
                   /\ nodes' = nodes
                   /\ roots' = roots
          /\ chkPc'[i] \in {"ttl", "store", "mark"}
                => IsRootOf(roots', chkAsset'[i][2])]_vars

\* C23 witness: one invocation was skipped and left the cache and the
\* scope as they were, while another, for the seed in upper case, passed
\* the scope test.
C23_Witness ==
    /\ chkPc[1] = "skipped"
    /\ chkPc[2] = "ttl"
    /\ chkAsset[2] = FqdnNamed(<<"A">>)
    /\ marks = {}
    /\ nodes = <<FqdnNamed(SeedRoot)>>

\* C24: AddDomain is idempotent and the scope only grows: the store step's
\* AddDomain returns true exactly when the name was no root before, and
\* false, leaving the roots as they were, when it was added before; after
\* the call the name and its subdomains pass the membership test; and no
\* step removes a root or takes a name out of scope.
C24_AddDomainIdempotentScopeGrows ==
    [][/\ \A j \in DOMAIN roots : j \in DOMAIN roots' /\ roots'[j] = roots[j]
       /\ roots' # roots =>
             \A d \in ChkNames :
                IsAssetInScope(roots, d).conf > 0 => IsAssetInScope(roots', d).conf > 0
       /\ \A i \in Checks : \A n \in chkPending[i] \ chkPending'[i] :
             (chkPc[i] = "store" /\ chkAdded'[i] # "none")
                => /\ chkAdded'[i] = "true" <=> ~\E j \in DOMAIN roots : roots[j] = n
                   /\ chkAdded'[i] = "false" => roots' = roots
                   /\ Cardinality({j \in DOMAIN roots' : roots'[j] = n}) = 1
                   /\ IsAssetInScope(roots', n).conf > 0
                   /\ IsAssetInScope(roots', <<"x", ".">> \o n).conf > 0]_vars

\* C24 witness: the domain b was added by one store step and a second
\* AddDomain of it, by another invocation, returned false.
C24_Witness ==
    /\ \E j \in DOMAIN roots : roots[j] = <<"b">>
    /\ \E i \in Checks : chkAdded[i] = "false" /\ <<"b">> \notin chkPending[i]
                         /\ chkPc[i] \in {"store", "mark"}

\* C28: CreateAsset is an idempotent upsert by content key: all calls with
\* the same content key, one after the other or from invocations running
\* at the same time, returned the same node, that node holds the key, and
\* the cache has exactly one node for it.
C28_CreateAssetIdempotentUpsert ==
    /\ \A p, q \in returned : p[1] = q[1] => p[2] = q[2]
    /\ \A p \in returned :
          /\ p[2] \in DOMAIN nodes
          /\ nodes[p[2]] = p[1]
          /\ Cardinality({j \in DOMAIN nodes : nodes[j] = p[1]}) = 1
    /\ \A i \in Checks : \A e \in chkNames[i] : \E p \in returned : p[2] = e

\* C28 witness: two invocations in flight at the same time have both
\* stored the FQDN b and hold the same node for it.
C28_Witness ==
    /\ chkPc[1] \in {"store", "mark"}
    /\ chkPc[2] \in {"store", "mark"}
    /\ \E e \in chkNames[1] \cap chkNames[2] : nodes[e] = FqdnNamed(<<"b">>)

\* Claim side: a MarkAssetMonitored call among calls was for the asset and
\* the source, at a time not before since.
MarkedSince(calls, asset, source, since) ==
    \E c \in calls : c[1] = asset /\ c[2] = source /\ c[3] >= since

\* Claim side: the query over the marks ms answers, for every asset, source
\* and since, whether such a call was made.
QueryAgrees(ms, calls) ==
    \A a \in ChkEvents : \A s \in {LetItGoSource, RdapSource} :
       \A since \in (0 - Ttl)..(MaxTime + 1) :
          AssetMonitoredWithinTTL(ms, a, s, since) <=> MarkedSince(calls, a, s, since)

\* C29: AssetMonitoredWithinTTL(asset, source, since) is false before any
\* MarkAssetMonitored(asset, source) call, true right after one, false
\* again once since is later than the mark's timestamp, and a mark for one
\* asset and source never answers for another asset or another source; so
\* the callback queries afresh only when its own source has no mark on the
\* event's asset at or after the start of the TTL window.
C29_MonitoredWithinTTL ==
    [][/\ QueryAgrees(marks, markCalls)
       /\ QueryAgrees(marks', markCalls')
       /\ \A c \in markCalls' \ markCalls :
             /\ AssetMonitoredWithinTTL(marks', c[1], c[2], c[3])
             /\ ~AssetMonitoredWithinTTL(marks', c[1], c[2], c[3] + 1)
       /\ \A i \in Checks :
             (chkPc[i] = "ttl" /\ chkPc'[i] = "store")
                <=> (/\ chkPc[i] = "ttl"
                     /\ chkPc'[i] # "ttl"
                     /\ ~MarkedSince(markCalls, chkAsset[i], LetItGoSource, chkSince[i])
                     /\ nodes' = nodes
                     /\ chkPending'[i] # {})]_vars

\* C29 witness: the LetItGo mark on the root domain's event is older than
\* the TTL window, the RDAP handler's mark on the same asset is inside it,
\* and the callback has queried afresh.
C29_Witness ==
    \E i \in Checks :
       /\ chkPc[i] = "store"
       /\ chkAsset[i] = FqdnNamed(<<"A">>)
       /\ \E m \in marks : m[1] = chkAsset[i] /\ m[2] = LetItGoSource /\ m[3] < chkSince[i]
       /\ \E m \in marks : m[1] = chkAsset[i] /\ m[2] = RdapSource /\ m[3] >= chkSince[i]

\* ------------------------------------------------------------------
\* The handler registry and the dispatcher: the plugins' Start methods
\* (rdap plugin, letitgo.go) over RegisterHandler and the dispatch of
\* events to the registered handlers.
\* ------------------------------------------------------------------

MaxStarts == 3
MaxDispatch == 2
Starts == 1..MaxStarts
Dispatches == 1..MaxDispatch

\* The plugins: the RDAP plugin, the LetItGo plugin and two plugins with
\* a handler for FQDN events each, one before and one after LetItGo's.
Plugins == {"RDAP", "LetItGo", "Early", "Late"}

\* The event types dispatched; nothing registers for IPAddress.
EventTypes == {"FQDN", "AutonomousSystem", "IPAddress"}

\* The handlers Start registers, in the order of its RegisterHandler
\* calls; max = 0 stands for a Handler without MaxInstances.
PluginHandlers(p) ==
    CASE p = "RDAP" ->
           << [plugin |-> p, name |-> "RDAP-Autsys-Handler", priority |-> 9,
               etype |-> "AutonomousSystem", max |-> 0],
              [plugin |-> p, name |-> "RDAP-Autnum-Handler", priority |-> 1,
               etype |-> "AutnumRecord", max |-> 0],
              [plugin |-> p, name |-> "RDAP-Netblock-Handler", priority |-> 9,
               etype |-> "Netblock", max |-> 0],
              [plugin |-> p, name |-> "RDAP-IPNetwork-Handler", priority |-> 1,
               etype |-> "IPNetRecord", max |-> 0] >>
      [] p = "LetItGo" ->
           << [plugin |-> p, name |-> "LetItGo-Handler", priority |-> 5,
               etype |-> "FQDN", max |-> MaxInstances] >>
      [] p = "Early" ->
           << [plugin |-> p, name |-> "Early-Handler", priority |-> 1,
               etype |-> "FQDN", max |-> 1] >>
      [] p = "Late" ->
           << [plugin |-> p, name |-> "Late-Handler", priority |-> 9,
               etype |-> "FQDN", max |-> 1] >>

\* Registry.RegisterHandler: an error when the same plugin, event type
\* and name are registered already, else the handler is added.
RegisterHandler(hs, h) ==
    IF \E j \in DOMAIN hs : /\ hs[j].plugin = h.plugin
                            /\ hs[j].etype = h.etype
                            /\ hs[j].name = h.name
      THEN [handlers |-> hs, err |-> TRUE]
      ELSE [handlers |-> Append(hs, h), err |-> FALSE]

StartStepIgnoringError(err, last) == IF last THEN "nil" ELSE "reg"

\* Start after a RegisterHandler call: `if err != nil { return err }`,
\* and `return nil` after the last one.
StartStep(err, last) ==
    IF err THEN "error" ELSE IF last THEN "nil" ELSE "reg"

\* Start is called on plugin p, the plugins being started one after the
\* other: rdapPlugin.Start gives up when there is no output directory or
\* no disk cache, before it registers anything.
StartBegin(s, p, outdirOk, cacheOk) ==
    /\ startPc[s] = "new"
    /\ \A r \in Starts : r < s => startPc[r] \in {"nil", "error"}
    /\ startPlugin' = [startPlugin EXCEPT ![s] = p]
    /\ startPc' = [startPc EXCEPT ![s] =
                      IF p = "RDAP" /\ ~(outdirOk /\ cacheOk) THEN "error" ELSE "reg"]
    /\ UNCHANGED <<handlers, startTried, dispPc, dispType, dispPending,
                   dispInvoked, running>>

\* Start makes its next RegisterHandler call.
StartRegister(s) ==
    /\ startPc[s] = "reg"
    /\ LET hl == PluginHandlers(startPlugin[s])
           k == startTried[s] + 1
           r == RegisterHandler(handlers, hl[k])
       IN /\ handlers' = r.handlers
          /\ startTried' = [startTried EXCEPT ![s] = k]
          /\ startPc' = [startPc EXCEPT ![s] = StartStep(r.err, k = Len(hl))]
    /\ UNCHANGED <<startPlugin, dispPc, dispType, dispPending, dispInvoked, running>>

\* The startup is over: every call of Start has returned.
Started == \A s \in Starts : startPc[s] \in {"nil", "error"}

BeforeByRegistration(hs, h, g) == h < g

\* h comes before g in the dispatch order: lower priority value first,
\* registration order within equal priority.
Before(hs, h, g) ==
    \/ hs[h].priority < hs[g].priority
    \/ hs[h].priority = hs[g].priority /\ h < g

\* Steps 1 and 2 of the dispatch: the handlers registered for the event
\* type, in dispatch order.
OrderedHandlers(hs, T) ==
    LET S == {j \in DOMAIN hs : hs[j].etype = T}
    IN CHOOSE q \in [1..Cardinality(S) -> S] :
          /\ \A a, b \in DOMAIN q : a < b => Before(hs, q[a], q[b])

\* Step 3 of the dispatch: the handler has a concurrency slot left. A
\* handler without MaxInstances is not held back.
SlotFree(hs, run, h) ==
    \/ hs[h].max = 0
    \/ Cardinality({r \in run : r[2] = h}) < hs[h].max

\* An event of type T comes in, the events before it having been handed
\* to their handlers, and its handlers are looked up.
Dispatch(d, T) ==
    /\ Started
    /\ dispPc[d] = "new"
    /\ \A c \in Dispatches : c < d => dispPc[c] = "done"
    /\ dispType' = [dispType EXCEPT ![d] = T]
    /\ LET q == OrderedHandlers(handlers, T)
       IN /\ dispPending' = [dispPending EXCEPT ![d] = q]
          /\ dispPc' = [dispPc EXCEPT ![d] = IF q = <<>> THEN "done" ELSE "run"]
    /\ UNCHANGED <<handlers, startPc, startPlugin, startTried, dispInvoked, running>>

\* Steps 3 and 4: the next handler's slot is acquired and its callback
\* invoked with the event, on a worker of its own.
Invoke(d) ==
    /\ dispPc[d] = "run"
    /\ LET h == Head(dispPending[d])
       IN /\ SlotFree(handlers, running, h)
          /\ running' = running \cup {<<d, h>>}
          /\ dispInvoked' = [dispInvoked EXCEPT ![d] = Append(@, h)]
          /\ dispPending' = [dispPending EXCEPT ![d] = Tail(@)]
          /\ dispPc' = [dispPc EXCEPT ![d] = IF Tail(dispPending[d]) = <<>> THEN "done" ELSE "run"]
    /\ UNCHANGED <<handlers, startPc, startPlugin, startTried, dispType>>

\* A callback returns, with an error or without, and gives its slot back.
CallbackReturn(d, h) ==
    /\ <<d, h>> \in running
    /\ running' = running \ {<<d, h>>}
    /\ UNCHANGED <<handlers, startPc, startPlugin, startTried, dispPc, dispType,
                   dispPending, dispInvoked>>

\* The registry is empty, no plugin is started and no event dispatched.
InitReg ==
    /\ InitManager
    /\ DbmsIdle
    /\ AddrIdle
    /\ AsIdle
    /\ ScopeIdle
    /\ LigIdle
    /\ ChkIdle
    /\ CancelIdle
    /\ LastIdle
    /\ handlers = <<>>
    /\ startPc = [s \in Starts |-> "new"]
    /\ startPlugin = [s \in Starts |-> "none"]
    /\ startTried = [s \in Starts |-> 0]
    /\ dispPc = [d \in Dispatches |-> "new"]
    /\ dispType = [d \in Dispatches |-> "none"]
    /\ dispPending = [d \in Dispatches |-> <<>>]
    /\ dispInvoked = [d \in Dispatches |-> <<>>]
    /\ running = {}

\* The other groups stay as they are.
RegFrame == UNCHANGED <<managerVars, dbmsVars, addrVars, asVars, scopeVars, ligVars,
                        chkVars, cancelVars, lastVars>>

NextReg ==
    \/ \E s \in Starts : \E p \in Plugins : \E outdirOk, cacheOk \in BOOLEAN :
          StartBegin(s, p, outdirOk, cacheOk) /\ RegFrame
    \/ \E s \in Starts : StartRegister(s) /\ RegFrame
    \/ \E d \in Dispatches : \E T \in EventTypes : Dispatch(d, T) /\ RegFrame
    \/ \E d \in Dispatches : Invoke(d) /\ RegFrame
    \/ \E d \in Dispatches : \E h \in DOMAIN handlers : CallbackReturn(d, h) /\ RegFrame

SpecReg == InitReg /\ [][NextReg]_vars

\* Claim side: handler h of a plugin is in the registry hs.
Registered(hs, h) ==
    \E j \in DOMAIN hs : hs[j].plugin = h.plugin /\ hs[j].etype = h.etype
                         /\ hs[j].name = h.name

\* C25: a duplicate handler registration is fatal to the plugin's startup:
\* a RegisterHandler call for a plugin, event type and name already present
\* fails and registers nothing, Start returns the error at that call and
\* makes no further call, Start returns nil only after it registered every
\* handler of the plugin (four for RDAP), and the handlers registered
\* before, those of other plugins included, stay as they are.
C25_DuplicateRegistrationIsFatal ==
    [][/\ \A j \in DOMAIN handlers : j \in DOMAIN handlers' /\ handlers'[j] = handlers[j]
       /\ \A s \in Starts :
             /\ startPc[s] \in {"nil", "error"}
                   => startPc'[s] = startPc[s] /\ startTried'[s] = startTried[s]
             /\ startTried'[s] # startTried[s]
                   => LET h == PluginHandlers(startPlugin[s])[startTried'[s]]
                      IN /\ startTried'[s] = startTried[s] + 1
                         /\ IF Registered(handlers, h)
                              THEN handlers' = handlers /\ startPc'[s] = "error"
                              ELSE /\ handlers' = Append(handlers, h)
                                   /\ startPc'[s] # "error"
             /\ startPc'[s] = "nil"
                   => /\ startTried'[s] = Len(PluginHandlers(startPlugin'[s]))
                      /\ startPlugin'[s] = "RDAP" => startTried'[s] = 4
                      /\ \A k \in DOMAIN PluginHandlers(startPlugin'[s]) :
                            Registered(handlers', PluginHandlers(startPlugin'[s])[k])]_vars

\* C25 witness: a second Start of the RDAP plugin failed at its first
\* registration, after the first Start had registered all four handlers
\* and LetItGo its own, which are all still there.
C25_Witness ==
    /\ Len(handlers) = 5
    /\ \E s, r, l \in Starts :
          /\ startPlugin[s] = "RDAP" /\ startPc[s] = "nil"
          /\ startPlugin[r] = "RDAP" /\ startPc[r] = "error" /\ startTried[r] = 1
          /\ startPlugin[l] = "LetItGo" /\ startPc[l] = "nil"

\* Claim side: the handlers of hs registered for event type T.
HandlersOfType(hs, T) == {j \in DOMAIN hs : hs[j].etype = T}

\* C26: dispatching one event to the N handlers registered for its type
\* invokes each of them exactly once, initiated in ascending priority
\* order with registration order breaking ties, while the callbacks
\* initiated earlier may still be running; with no handler registered
\* for the type the dispatch is over at once and invokes nothing.
C26_DispatchOrderExactlyOnce ==
    \A d \in Dispatches :
       LET q == dispInvoked[d]
       IN /\ \A a, b \in DOMAIN q : a < b =>
                /\ q[a] # q[b]
                /\ handlers[q[a]].priority <= handlers[q[b]].priority
                /\ handlers[q[a]].priority = handlers[q[b]].priority => q[a] < q[b]
          /\ \A a \in DOMAIN q : q[a] \in HandlersOfType(handlers, dispType[d])
          /\ \A h \in HandlersOfType(handlers, dispType[d]) :
                \A a \in DOMAIN q :
                   (handlers[h].priority < handlers[q[a]].priority
                    \/ (handlers[h].priority = handlers[q[a]].priority /\ h < q[a]))
                      => \E b \in DOMAIN q : b < a /\ q[b] = h
          /\ dispPc[d] = "done" =>
                {q[a] : a \in DOMAIN q} = HandlersOfType(handlers, dispType[d])
          /\ \A r \in running : r[1] = d => \E a \in DOMAIN q : q[a] = r[2]

\* C26 witness: an FQDN event went to three handlers, the one of priority
\* 1 registered last, all three callbacks are still running; and an event
\* of a type without handlers was dispatched and invoked nothing.
C26_Witness ==
    /\ Len(handlers) = 3
    /\ handlers[3].priority = 1
    /\ handlers[1].priority = 9
    /\ \E d, e \in Dispatches :
          /\ dispPc[d] = "done"
          /\ dispInvoked[d] = <<3, 2, 1>>
          /\ {<<d, 1>>, <<d, 2>>, <<d, 3>>} \subseteq running
          /\ dispPc[e] = "done"
          /\ dispType[e] = "IPAddress"
          /\ dispInvoked[e] = <<>>

\* ------------------------------------------------------------------
\* Cancellation: Session.Kill and Session.Done, and the two long loops,
\* cnameQuery (addr.go) and the retry loop of letitgo.Run.
\* ------------------------------------------------------------------

\* Session.Kill: closes the done channel unless it is closed.
SessKill ==
    /\ ~killed
    /\ killed' = TRUE
    /\ UNCHANGED <<runPc, runDomain, runFound, runIters>>

\* Session.Done: the done channel is closed.
SessDone == killed

\* The names Run is called with, as lists of pieces of text: a registrable
\* domain, a name under a two-label public suffix, a bare public suffix, a
\* name under onmicrosoft.com, and a domain whose text ends in
\* "onmicrosoft.com" without being under it.
RunDomains ==
    {<<"example", ".", "com">>,
     <<"www", ".", "example", ".", "co", ".", "uk">>,
     <<"com">>,
     <<"contoso", ".", "onmicrosoft", ".", "com">>,
     <<"not", "onmicrosoft", ".", "com">>}

\* The text "onmicrosoft.com".
OnMicrosoft == <<"onmicrosoft", ".", "com">>

\* The public suffixes known, as lists of labels; any other last label is
\* a suffix too.
PublicSuffixes == {<< <<"com">> >>, << <<"co">>, <<"uk">> >>}

RECURSIVE SplitLabels(_)
\* strings.Split(s, "."): the labels of s, one empty label for the empty text.
SplitLabels(s) ==
    IF \A i \in DOMAIN s : s[i] # "."
      THEN << s >>
      ELSE LET k == FirstOf({i \in DOMAIN s : s[i] = "."})
           IN << SubSeq(s, 1, k - 1) >> \o SplitLabels(SubSeq(s, k + 1, Len(s)))

RECURSIVE JoinLabels(_)
\* The labels joined with dots.
JoinLabels(l) ==
    IF Len(l) = 0 THEN <<>>
    ELSE IF Len(l) = 1 THEN l[1]
    ELSE l[1] \o <<".">> \o JoinLabels(Tail(l))

\* publicsuffix.EffectiveTLDPlusOne: the public suffix of the name and one
\* more label; the empty text (with an error) for a name that is a suffix.
EffectiveTLDPlusOne(s) ==
    LET l == SplitLabels(s)
        n == Len(l)
        k == IF n >= 2 /\ SubSeq(l, n - 1, n) \in PublicSuffixes THEN 2 ELSE 1
    IN IF n <= k THEN <<>> ELSE JoinLabels(SubSeq(l, n - k, n))

RunRetriesWhileEmpty(found, domain) == ~found

\* Run, line 88: no usable domain so far and the domain asked for does not
\* end in "onmicrosoft.com".
RunRetries(found, domain) == ~found /\ ~HasSuffix(domain, OnMicrosoft)

\* Run, lines 90-91: the labels of the registrable part of the domain; the
\* error of EffectiveTLDPlusOne is dropped.
RunParts(domain) == SplitLabels(EffectiveTLDPlusOne(domain))

\* Run, line 93: fmt.Sprintf("%s.onmicrosoft.com", parts[len(parts)-2]).
RunRetryDomain(parts) == parts[Len(parts) - 1] \o <<".">> \o OnMicrosoft

\* What one request yields: a transport error, a body that does not
\* decode, no usable domain, some usable domains.
RunResponses == {"error", "undecodable", "empty", "domains"}

\* Run is called: the rate limiter is passed and the loop entered.
RunStart(domain) ==
    /\ runPc = "idle"
    /\ runPc' = "loop"
    /\ runDomain' = domain
    /\ UNCHANGED <<killed, runFound, runIters>>

\* One iteration of `for retry`: the request, the decoding, the domains
\* collected, and either another turn with the onmicrosoft.com name or
\* the end of the loop and the names handed to the session.
RunIterate(resp) ==
    /\ runPc = "loop"
    /\ runIters' = runIters + 1
    /\ IF resp \in {"error", "undecodable"}
         THEN /\ runPc' = "error"
              /\ UNCHANGED <<runDomain, runFound>>
         ELSE /\ runFound' = (runFound \/ resp = "domains")
              /\ IF RunRetries(runFound', runDomain) /\ Len(RunParts(runDomain)) > 1
                   THEN /\ runDomain' = RunRetryDomain(RunParts(runDomain))
                        /\ runPc' = "loop"
                   ELSE /\ runPc' = "done"
                        /\ UNCHANGED runDomain
    /\ UNCHANGED killed

\* The databases cnameQuery runs on here: alias chains of one to three
\* hops ending in an address.
CancelGraphs == {ChainGraph(k, << EdgeTo("basic", 1, Ip(1)) >>) : k \in 1..3}

\* A session that is alive, a NamesToAddrs call and a Run call not yet
\* started.
InitCancel ==
    /\ InitManager
    /\ DbmsIdle
    /\ AsIdle
    /\ ScopeIdle
    /\ LigIdle
    /\ ChkIdle
    /\ RegIdle
    /\ LastIdle
    /\ graph \in CancelGraphs
    /\ names = Requested
    /\ ntaPc = "start"
    /\ fqdns = <<>>
    /\ fi = 0
    /\ ei = 0
    /\ results = <<>>
    /\ ntaErr = "none"
    /\ cqI = 0
    /\ cqNext = Nil
    /\ cqSet = {}
    /\ examined = <<>>
    /\ killed = FALSE
    /\ runPc = "idle"
    /\ runDomain = <<>>
    /\ runFound = FALSE
    /\ runIters = 0

\* The other groups stay as they are.
CancelFrame == UNCHANGED <<managerVars, dbmsVars, addrVars, asVars, scopeVars, ligVars,
                           chkVars, regVars, lastVars>>

NextCancel ==
    \/ NtaFind /\ UNCHANGED <<managerVars, dbmsVars, asVars, scopeVars, ligVars, laterVars>>
    \/ NtaEdge /\ UNCHANGED <<managerVars, dbmsVars, asVars, scopeVars, ligVars, laterVars>>
    \/ CqStep /\ UNCHANGED <<managerVars, dbmsVars, asVars, scopeVars, ligVars, laterVars>>
    \/ SessKill /\ CancelFrame
    \/ \E domain \in RunDomains : RunStart(domain) /\ CancelFrame
    \/ \E resp \in RunResponses : RunIterate(resp) /\ CancelFrame

SpecCancel == InitCancel /\ [][NextCancel]_vars

\* C30: cancellation is observed by the long-running loops: once the
\* session is killed, the alias traversal of cnameQuery and the retry loop
\* of letitgo.Run start no further iteration.
C30_CancellationObserved ==
    [][SessDone =>
          /\ ~(ntaPc = "cname" /\ examined' # examined)
          /\ ~(runPc = "loop" /\ runIters' # runIters)]_vars

\* ------------------------------------------------------------------
\* The session manager under fair scheduling.
\* ------------------------------------------------------------------

\* Goroutine p takes the next step of the call it is in.
ProcStep(p) ==
    /\ \/ NsStore(p)
       \/ CancelKillSelect(p) \/ CancelKillClose(p) \/ CancelPoll(p)
       \/ CancelCloseCache(p) \/ CancelRemoveTmp(p) \/ CancelCloseDB(p)
       \/ CancelCloseSet(p) \/ CancelRemove(p)
       \/ SdLoop(p) \/ SdKillSelect(p) \/ SdKillClose(p) \/ SdDelete(p)
       \/ SdRemove(p) \/ SdExit(p)
    /\ UNCHANGED otherVars

\* The scheduler lets every goroutine that can go on do so; whether calls
\* are made and whether handlers finish their work is up to the callers
\* and the handlers.
SpecFair == Spec /\ \A p \in Procs : WF_vars(ProcStep(p))

\* C31: under fair scheduling a CancelSession that found its session
\* returns, with the session removed from the registry, unless the
\* session's WorkItemsCompleted differs from WorkItemsTotal again and
\* again; and it gets past its polling loop only after a poll saw the two
\* counters equal.
C31_CancelCompletesOnceWorkDrains ==
    /\ \A p \in Procs : \A o \in Objs :
          (pc[p] \in CancelPcs /\ ref[p] = o)
             ~> \/ /\ pc[p] = "done"
                   /\ IdOf(o) \in cancelled
                   /\ IdOf(o) \notin DOMAIN sessions
                \/ total[o] # completed[o]
    /\ [](\A p \in Procs :
             pc[p] \in {"c_lock", "c_tmp", "c_db", "c_set", "c_remove"} => observed[p])

\* C32: CancelSession(id) for an id that is not in the registry is a no-op:
\* it returns at once, kills and deletes no session, closes no resource and
\* leaves the registry as it is; a CancelSession that goes on found its id
\* in the registry.
C32_CancelUnknownIsNoOp ==
    [][\A p \in Procs :
          /\ (pc[p] = "new" /\ pc'[p] \in CancelPcs)
                => /\ arg'[p] \in DOMAIN sessions
                   /\ ref'[p] = sessions[arg'[p]]
          /\ \A id \in Ids :
                (CancelStart(p, id) /\ id \notin DOMAIN sessions)
                   => /\ pc'[p] = "done"
                      /\ ret' = <<"CancelSession", p, Nil>>
                      /\ UNCHANGED <<mgrVars, sessVars, statVars, histVars>>]_vars

\* C32 witness: a CancelSession for an id that is not registered has just
\* returned, with another session registered and alive.
C32_Witness ==
    /\ ret[1] = "CancelSession"
    /\ \E id \in DOMAIN sessions : ~Done(sessions[id]) /\ released[sessions[id]] = {}

\* C33: when CancelSession reaches its cleanup the registry still holds the
\* session under the id: no cleanup step looks up an entry that another
\* CancelSession or Shutdown has removed, and no cleanup step closes a
\* resource that was closed before.
C33_CleanupFindsItsSession ==
    [][\A p \in Procs :
          /\ (pc[p] \in {"c_lock", "c_tmp"} /\ Moves(p))
                => /\ arg[p] \in DOMAIN sessions
                   /\ sessions[arg[p]] = ref[p]
          /\ (pc[p] \in {"c_lock", "c_tmp", "c_db", "c_set"} /\ Moves(p))
                => released'[ref[p]] # released[ref[p]]]_vars

\* C34: lookups are not blocked by a pending cancellation: a CancelSession
\* holds no registry lock from its lookup to the end of its polling loop,
\* so that a GetSession, AddSession or NewSession call can be made while
\* it waits unless some other call holds the lock; and as long as the
\* entry is in the registry GetSession(id) returns the session being
\* cancelled, whose Done() is true.
C34_PollingHoldsNoLock ==
    [][\A p \in Procs :
          /\ pc[p] \in {"c_kill", "c_close", "c_poll", "c_lock"} => p \notin lock
          /\ \A q \in Procs :
                (pc[p] = "c_poll" /\ lock \subseteq {p} /\ Startable(q))
                   => /\ ENABLED GetSession(q, arg[p])
                      /\ NextObj \in Objs => ENABLED NsCreate(q, TRUE)
                      /\ \A o \in published : ~Done(o) => ENABLED AddSession(q, o)
          /\ \A q \in Procs :
                (/\ pc[p] = "c_poll"
                 /\ arg[p] \in DOMAIN sessions
                 /\ GetSession(q, arg[p]))
                   => /\ ret' = <<"GetSession", q, ref[p]>>
                      /\ Done(ref[p])
                      /\ pc'[q] = "done"]_vars

\* C34 witness: while a CancelSession waits for work to drain, a lookup of
\* its id has just returned the killed session.
C34_Witness ==
    \E p \in Procs :
       /\ pc[p] = "c_poll"
       /\ total[ref[p]] # completed[ref[p]]
       /\ ret[1] = "GetSession"
       /\ ret[3] = ref[p]
       /\ Done(ref[p])

\* C35: the registry maps each id to exactly one session, the one that
\* has this id: the first store of a successful NewSession adds exactly one
\* entry and its second store adds none when the entry is still there (and
\* never more than that one entry); AddSession of a registered session
\* leaves the registry unchanged; AddSession(nil) returns the zero id with
\* a nil error and changes nothing.
C35_OneEntryPerSession ==
    [][/\ \A id \in DOMAIN sessions : IdOf(sessions[id]) = id
       /\ \A p \in Procs :
             /\ (pc[p] = "new" /\ pc'[p] = "ns_store")
                   => /\ Cardinality(DOMAIN sessions') = Cardinality(DOMAIN sessions) + 1
                      /\ \A id \in DOMAIN sessions : sessions'[id] = sessions[id]
             /\ (pc[p] = "ns_store" /\ pc'[p] = "done" /\ ret'[1] = "NewSession")
                   => /\ DOMAIN sessions' = DOMAIN sessions \cup {IdOf(ref[p])}
                      /\ sessions'[IdOf(ref[p])] = ref[p]
                      /\ IdOf(ref[p]) \in DOMAIN sessions => sessions' = sessions
             /\ \A o \in Objs \cup {Nil} :
                   AddSession(p, o)
                      => /\ ret' = <<"AddSession", p, IdOf(o)>>
                         /\ o = Nil => (ret'[3] = UnknownId /\ sessions' = sessions)
                         /\ IdOf(o) \in DOMAIN sessions => sessions' = sessions
                         /\ DOMAIN sessions' \subseteq DOMAIN sessions \cup {IdOf(o)}]_vars

\* C35 witness: AddSession(nil) has just returned the zero id to a manager
\* that holds a session a NewSession call stored twice.
C35_Witness ==
    /\ ret = <<"AddSession", ret[2], UnknownId>>
    /\ \E o \in published : IdOf(o) \in DOMAIN sessions /\ sessions[IdOf(o)] = o
    /\ Cardinality(DOMAIN sessions) = 1

\* The place of name n in the list of requested names, or 0.
PlaceOf(n) == FirstOf({k \in DOMAIN names : names[k] = n})

C37_MarkOnlyAfterSuccessfulQuery ==
    [][/\ monitored' # monitored
          => \E i \in Invocations :
                /\ ligPc[i] = "mark"
                /\ ligResp[i] = "domains"
                /\ monitored' = monitored \cup {ligAsset[i]}
       /\ \A i \in Invocations :
             /\ (ligPc[i] = "query" /\ ligPc'[i] # "query" /\ ligResp'[i] \notin {"none", "domains"})
                   => /\ monitored' = monitored
                      /\ ligPc'[i] = "done"
             /\ (/\ ligPc[i] = "query" /\ ligPc'[i] # "query" /\ IsFQDN(ligAsset[i])
                 /\ \E j \in Invocations :
                       /\ ligPc[j] = "done"
                       /\ ligAsset[j] = ligAsset[i]
                       /\ ligResp[j] \notin {"none", "domains"})
                   => requests' = [requests EXCEPT ![ligAsset[i]] = @ + 1]
             /\ (ligPc'[i] = "process" /\ ligPc[i] # "process")
                   => /\ ligPc[i] = "mark"
                      /\ ligResp[i] = "domains"
                      /\ ligAsset[i] \in monitored'
             /\ ligPc[i] = "process" => ligAsset[i] \in monitored]_vars

\* C37 witness: the query of the first event for an asset failed and left
\* it unmarked; the next event for the asset made the request again, and
\* its handler has written the mark and is about to process the names.
C37_Witness ==
    \E i, j \in Invocations :
       /\ i < j
       /\ ligPc[i] = "done" /\ ligResp[i] = "transport error"
       /\ ligAsset[j] = ligAsset[i]
       /\ ligPc[j] = "process"
       /\ requests[ligAsset[i]] = 2
       /\ monitored = {ligAsset[i]}

\* C38: the retry loop of letitgo.Run ends after at most two external
\* requests: it goes round again only after the first request, when no
\* usable domain was found and the domain asked for does not end in
\* "onmicrosoft.com", and then with a label of this domain followed by
\* ".onmicrosoft.com"; the request for the retried domain is the last.
C38_AtMostTwoRequests ==
    [][/\ runIters' <= 2
       /\ (runIters' # runIters /\ runPc' = "loop")
             => /\ runIters = 0
                /\ ~runFound'
                /\ ~HasSuffix(runDomain, OnMicrosoft)
                /\ \E k \in DOMAIN SplitLabels(runDomain) :
                      runDomain' = SplitLabels(runDomain)[k] \o <<".">> \o OnMicrosoft
                /\ HasSuffix(runDomain', OnMicrosoft)
       /\ (runIters' # runIters /\ runIters = 1)
             => runPc' \in {"done", "error"}]_vars

\* C38 witness: the request for example.com found nothing, the request for
\* example.onmicrosoft.com found nothing either, and the loop has ended.
C38_Witness ==
    /\ runPc = "done"
    /\ runIters = 2
    /\ ~runFound
    /\ runDomain = <<"example", ".", "onmicrosoft", ".", "com">>

\* ------------------------------------------------------------------
\* The RDAP plugin: storeEntity.
\* ------------------------------------------------------------------

\* Deepest nesting of entities tried.
MaxNesting == 2

\* The role lists tried.
RoleSets ==
    {{"other"}, {"registrant"}, {"registrant", "technical"},
     {"administrative", "abuse", "technical"}, {"abuse", "technical"}, {"technical"}}

\* What stops storeEntity after the relation was chosen: nothing, a failing
\* CreateAsset of the contact record, a vCard without a "kind" property.
Stops == {"none", "asset", "kind"}

\* An entity: its roles, whether one of its links has the type
\* application/rdap+json, what stops it, its nested entities.
Ent(roles, link, stop, entities) ==
    [roles |-> roles, link |-> link, stop |-> stop, entities |-> entities]

\* A nested entity with the technical role, a link and a full vCard.
PlainEnt == Ent({"technical"}, TRUE, "none", <<>>)

RECURSIVE EntitiesTo(_)
\* The entities nested at most d deep: nothing nested, one nested entity,
\* or one followed by the plain one.
EntitiesTo(d) ==
    IF d = 0 THEN {}
    ELSE LET below == EntitiesTo(d - 1)
             lists == {<<>>} \cup {<<c>> : c \in below} \cup {<<c, PlainEnt>> : c \in below}
         IN {Ent(r, l, s, es) : r \in RoleSets, l \in BOOLEAN, s \in Stops, es \in lists}

\* getJSONLink: the URL of the first link of type application/rdap+json,
\* nil when there is none.
getJSONLink(entity) == IF entity.link THEN "url" ELSE "nil"

RelFirstRole(roles, level) ==
    IF "technical" \in roles THEN "technical_contact"
    ELSE IF "abuse" \in roles THEN "abuse_contact"
    ELSE IF "administrative" \in roles THEN "admin_contact"
    ELSE IF "registrant" \in roles /\ level = 1 THEN "registrant"
    ELSE "none"

\* storeEntity, lines 190-200: the relation for the roles at this level,
\* "none" where the function returns nil.
Rel(roles, level) ==
    IF "registrant" \in roles /\ level = 1 THEN "registrant"
    ELSE IF "administrative" \in roles THEN "admin_contact"
    ELSE IF "abuse" \in roles THEN "abuse_contact"
    ELSE IF "technical" \in roles THEN "technical_contact"
    ELSE "none"

\* What a call returns: the findings, and the calls made for it.
SeResult(fs, vs) == [findings |-> fs, visited |-> vs]

RECURSIVE storeEntity(_, _, _)
RECURSIVE SeNested(_, _, _, _)
\* storeEntity, lines 345-348: the nested entities from the k-th on, each
\* stored at the level given, their findings appended in order.
SeNested(level, entities, path, k) ==
    IF k > Len(entities) THEN SeResult(<<>>, {})
    ELSE LET one == storeEntity(level, entities[k], Append(path, k))
             rest == SeNested(level, entities, path, k + 1)
         IN SeResult(one.findings \o rest.findings, one.visited \cup rest.visited)

\* storeEntity: nil without the link, without one of the four roles, when
\* the contact record cannot be created and when the vCard has no kind;
\* otherwise the finding for the entity followed by those of its nested
\* entities, stored with level + 1.
storeEntity(level, entity, path) ==
    LET self == {<<path, level>>}
        rel == Rel(entity.roles, level)
    IN IF getJSONLink(entity) = "nil" THEN SeResult(<<>>, self)
       ELSE IF rel = "none" THEN SeResult(<<>>, self)
       ELSE IF entity.stop # "none" THEN SeResult(<<>>, self)
       ELSE LET nested == SeNested(level + 1, entity.entities, path, 1)
            IN SeResult(<< <<path, rel>> >> \o nested.findings, self \cup nested.visited)

\* The call is made and returns.
SeCall ==
    /\ sePc = "new"
    /\ sePc' = "done"
    /\ LET r == storeEntity(seLevel, seEntity, <<>>)
       IN /\ seFindings' = r.findings
          /\ seVisited' = r.visited
    /\ UNCHANGED <<seLevel, seEntity>>

\* A call with an entity of the response, at the first level or below it.
InitRdap ==
    /\ InitManager
    /\ DbmsIdle
    /\ AddrIdle
    /\ AsIdle
    /\ ScopeIdle
    /\ LigIdle
    /\ ChkIdle
    /\ RegIdle
    /\ CancelIdle
    /\ OutIdle
    /\ sePc = "new"
    /\ seLevel \in {1, 2}
    /\ seEntity \in EntitiesTo(MaxNesting)
    /\ seFindings = <<>>
    /\ seVisited = {}

NextRdap ==
    SeCall /\ UNCHANGED <<managerVars, dbmsVars, addrVars, asVars, scopeVars, ligVars,
                          chkVars, regVars, cancelVars, outVars>>

SpecRdap == InitRdap /\ [][NextRdap]_vars

RECURSIVE EntityAt(_, _)
\* The entity at a path of positions below entity e.
EntityAt(e, path) ==
    IF path = <<>> THEN e ELSE EntityAt(e.entities[Head(path)], Tail(path))

\* Path p is path q or leads below it.
Under(p, q) == Len(q) <= Len(p) /\ SubSeq(p, 1, Len(q)) = q

\* C39: storeEntity chooses the relation of a finding by a fixed order of
\* the roles: registrant only for the registrant role at level 1,
\* otherwise admin_contact for administrative, otherwise abuse_contact for
\* abuse, otherwise technical_contact for technical; an entity with none
\* of these roles, or without a link of type application/rdap+json, gives
\* no finding and none of its nested entities is visited; a nested entity
\* is stored at the level of its parent plus one.
C39_RolePrecedence ==
    sePc = "done" =>
       /\ \A i \in DOMAIN seFindings :
             \E v \in seVisited :
                LET roles == EntityAt(seEntity, v[1]).roles
                    first == "registrant" \in roles /\ v[2] = 1
                    rel == seFindings[i][2]
                IN /\ v[1] = seFindings[i][1]
                   /\ rel = "registrant" <=> first
                   /\ rel = "admin_contact" <=> (~first /\ "administrative" \in roles)
                   /\ rel = "abuse_contact"
                         <=> (~first /\ {"administrative", "abuse"} \cap roles = {"abuse"})
                   /\ rel = "technical_contact"
                         <=> (~first /\ {"administrative", "abuse", "technical"} \cap roles
                                           = {"technical"})
       /\ \A v \in seVisited :
             LET e == EntityAt(seEntity, v[1])
                 passed == /\ e.link
                           /\ \/ "registrant" \in e.roles /\ v[2] = 1
                              \/ {"administrative", "abuse", "technical"} \cap e.roles # {}
             IN /\ ~passed
                      => /\ \A i \in DOMAIN seFindings : ~Under(seFindings[i][1], v[1])
                         /\ \A w \in seVisited : Under(w[1], v[1]) => w = v
                /\ v[1] = <<>> => v[2] = seLevel
                /\ v[1] # <<>> => <<SubSeq(v[1], 1, Len(v[1]) - 1), v[2] - 1>> \in seVisited
                /\ \A w \in seVisited : w[1] = v[1] => w = v

\* C39 witness: at level 1 an entity with the registrant and technical
\* roles gave a registrant finding; its nested entity with the same roles,
\* at level 2, gave a technical_contact finding, as did the plain one.
C39_Witness ==
    /\ sePc = "done"
    /\ seLevel = 1
    /\ seFindings = << <<<<>>, "registrant">>, <<<<1>>, "technical_contact">>,
                       <<<<2>>, "technical_contact">> >>
    /\ EntityAt(seEntity, <<1>>).roles = {"registrant", "technical"}

\* ------------------------------------------------------------------
\* The subs command: addAddresses and addInfrastructureInfo.
\* ------------------------------------------------------------------

\* The databases tried: the first name without records, with an address
\* record, with a record that fails before one that resolves, or with an
\* alias to the second name; the second name without records or with one
\* of two addresses.
OutGraphs ==
    {SmallGraph(l0, l1) :
        l0 \in {<<>>,
                << EdgeTo("basic", 1, Ip(1)) >>,
                << EdgeTo("basic", 1, Gone), EdgeTo("basic", 28, Ip(2)) >>,
                << EdgeTo("basic", 5, Fqdn(1)) >>},
        l1 \in {<<>>, << EdgeTo("basic", 1, Ip(1)) >>, << EdgeTo("basic", 1, Ip(2)) >>}}

\* A prefix of the ASN cache: the addresses it contains and its length.
Prefix(members, bits) == [members |-> members, bits |-> bits]

\* No prefix: the nil result of AddrSearch, the zero fields of AddressInfo.
NoPrefix == Prefix({}, 0)

\* A nil *utils.ASNCache, and a cache with the prefixes given.
NilCache == [isNil |-> TRUE, prefixes |-> {}]
ASNCache(ps) == [isNil |-> FALSE, prefixes |-> ps]

\* The caches tried: any of a prefix around each address and a shorter one
\* around both.
Caches ==
    {ASNCache(ps) :
        ps \in SUBSET {Prefix({Ip(1)}, 32), Prefix({Ip(2)}, 32), Prefix({Ip(1), Ip(2)}, 24)}}

\* ASNCache.AddrSearch: the most specific prefix of the cache that contains
\* the address, nil when none does.
AddrSearch(c, addr) ==
    LET in == {p \in c.prefixes : addr \in p.members}
    IN IF in = {} THEN NoPrefix
       ELSE CHOOSE p \in in : \A q \in in : q.bits <= p.bits

\* utils.AddressInfo: the address and, from addInfrastructureInfo, the prefix.
AddressInfo(addr, prefix) == [addr |-> addr, prefix |-> prefix]

KeepsOutputAlways(addresses) == TRUE

\* `len(o.Addresses) > 0`: the entry goes to the output.
KeepsOutput(addresses) == Len(addresses) > 0

\* The entries of the lookup that are kept.
OutputOf(l) == [n \in {m \in DOMAIN l : KeepsOutput(l[m])} |-> l[n]]

RECURSIVE AddPairs(_, _)
\* addAddresses, lines 286-295: the address of each pair is appended to
\* the entry of the pair's name, when there is one.
AddPairs(l, pairs) ==
    IF pairs = <<>> THEN l
    ELSE LET p == Head(pairs)
             l1 == IF p[1] \in DOMAIN l
                     THEN [l EXCEPT ![p[1]] = Append(@, AddressInfo(p[2], NoPrefix))]
                     ELSE l
         IN AddPairs(l1, Tail(pairs))

\* addInfrastructureInfo, lines 332-345: the addresses the cache has a
\* prefix for, each with this prefix.
InfraAddrs(c, addresses) ==
    LET RECURSIVE Go(_)
        Go(as) ==
           IF as = <<>> THEN <<>>
           ELSE LET i == AddrSearch(c, Head(as).addr)
                IN IF i = NoPrefix THEN Go(Tail(as))
                   ELSE << AddressInfo(Head(as).addr, i) >> \o Go(Tail(as))
    IN Go(addresses)

\* addAddresses, lines 277-285: the lookup table and the names are built
\* and NamesToAddrs is called.
AaStart ==
    /\ aaPc = "new"
    /\ ntaPc = "idle"
    /\ aaPc' = "resolve"
    /\ lookup' = [n \in {Requested[k] : k \in DOMAIN Requested} |-> <<>>]
    /\ names' = Requested
    /\ ntaPc' = "start"
    /\ UNCHANGED <<asninfo, cache, output>>
    /\ UNCHANGED <<graph, fqdns, fi, ei, results, ntaErr, cqI, cqNext, cqSet, examined>>

\* addAddresses, lines 285-307: NamesToAddrs returned; the addresses are
\* added, and either the entries with an address are returned or
\* addInfrastructureInfo is called.
AaCollect ==
    /\ aaPc = "resolve"
    /\ ntaPc = "done"
    /\ lookup' = IF ntaErr = "nil" THEN AddPairs(lookup, results) ELSE lookup
    /\ IF ~asninfo \/ cache.isNil
         THEN /\ output' = OutputOf(lookup')
              /\ aaPc' = "done"
         ELSE /\ aaPc' = "infra"
              /\ UNCHANGED output
    /\ UNCHANGED <<asninfo, cache, addrVars>>

\* addInfrastructureInfo: every entry keeps the addresses the cache knows
\* and goes to the output when it has one left.
AaInfra ==
    /\ aaPc = "infra"
    /\ lookup' = [n \in DOMAIN lookup |-> InfraAddrs(cache, lookup[n])]
    /\ output' = OutputOf(lookup')
    /\ aaPc' = "done"
    /\ UNCHANGED <<asninfo, cache, addrVars>>

\* showData: the cache exists exactly when ASN information is requested;
\* the names come from getNames without addresses.
InitOut ==
    /\ InitManager
    /\ DbmsIdle
    /\ AsIdle
    /\ ScopeIdle
    /\ LigIdle
    /\ ChkIdle
    /\ RegIdle
    /\ CancelIdle
    /\ RdapIdle
    /\ graph \in OutGraphs
    /\ names = <<>>
    /\ ntaPc = "idle"
    /\ fqdns = <<>>
    /\ fi = 0
    /\ ei = 0
    /\ results = <<>>
    /\ ntaErr = "none"
    /\ cqI = 0
    /\ cqNext = Nil
    /\ cqSet = {}
    /\ examined = <<>>
    /\ aaPc = "new"
    /\ asninfo \in BOOLEAN
    /\ cache \in IF asninfo THEN Caches ELSE {NilCache}
    /\ lookup = << >>
    /\ output = << >>

\* The groups addAddresses and NamesToAddrs leave alone.
OutFrame == UNCHANGED <<managerVars, dbmsVars, asVars, scopeVars, ligVars, chkVars,
                        regVars, cancelVars, rdapVars>>

NextOut ==
    \/ AaStart /\ OutFrame
    \/ NtaFind /\ OutFrame /\ UNCHANGED outVars
    \/ NtaEdge /\ OutFrame /\ UNCHANGED outVars
    \/ CqStep /\ OutFrame /\ UNCHANGED outVars
    \/ AaCollect /\ OutFrame
    \/ AaInfra /\ OutFrame

SpecOut == InitOut /\ [][NextOut]_vars

\* C40: every entry addAddresses returns has at least one address: a name
\* NamesToAddrs gave no pair for is not returned, and when ASN information
\* is requested every address kept lies in the prefix of the cache that is
\* recorded with it, and a name none of whose addresses lies in a prefix
\* of the cache is not returned.
C40_OutputHasAddress ==
    aaPc = "done" =>
       /\ \A n \in DOMAIN output : Len(output[n]) >= 1
       /\ \A k \in DOMAIN names :
             (\A i \in DOMAIN results : results[i][1] # names[k])
                => names[k] \notin DOMAIN output
       /\ asninfo =>
             /\ \A n \in DOMAIN output : \A i \in DOMAIN output[n] :
                   /\ output[n][i].prefix \in cache.prefixes
                   /\ output[n][i].addr \in output[n][i].prefix.members
             /\ \A k \in DOMAIN names :
                   (\A i \in DOMAIN results :
                       results[i][1] = names[k]
                          => \A p \in cache.prefixes : results[i][2] \notin p.members)
                      => names[k] \notin DOMAIN output

\* C40 witness: with ASN information requested, both names resolved, the
\* cache holds a prefix for the address of the first only, and only the
\* first name is returned.
C40_Witness ==
    /\ aaPc = "done"
    /\ asninfo
    /\ results = << <<Fqdn(0), Ip(1)>>, <<Fqdn(1), Ip(2)>> >>
    /\ cache = ASNCache({Prefix({Ip(1)}, 32)})
    /\ DOMAIN output = {Fqdn(0)}
====
